---- MODULE Spec2Model ----
(***************************************************************************)
(* RIKA 2.0: the SaaS Tool Broker (src/unnamed/part_003, class ToolBroker) *)
(* and the Intelligence Router (src/unnamed/part_004, class                *)
(* IntelligenceRouter), modelled as state machines.                        *)
(*                                                                         *)
(* JavaScript runs one callback at a time: every action below is the code  *)
(* that runs between two suspension points (await / timer / socket event). *)
(***************************************************************************)
EXTENDS Integers, Sequences, FiniteSets, TLC

VARIABLES
    (* ToolBroker *)
    initPc,         \* position of the async initializeProviders()
    env,            \* process.env keys that are set (API keys)
    providers,      \* this.providers: names of the registered providers
    fallbacks,      \* this.fallbacks: service -> chain (empty until setupFallbacks)
    healthStatus,   \* this.healthStatus: name -> health record
    retryAttempts,  \* this.retryAttempts: key -> attempt count (0 = no entry)
    probe,          \* the running performHealthChecks() rounds
    call,           \* the running callProvider() invocations
    fb,             \* the running callWithFallback() invocations
    (* IntelligenceRouter *)
    now,            \* Date.now(), in milliseconds since construction
    ticks,          \* how many times the clock has been advanced
    dailyBudget,    \* parseFloat(process.env.DAILY_BUDGET_USD) || 10.0, in CostUnits
    costTracker,    \* this.costTracker: daily (in CostUnits) and requests
    costLog,        \* the outcomes of the cost checks since the ledger was last zero
    resets,         \* whether resetDailyCosts() has run
    intentCache,    \* this.intentCache: message hash -> cached entry
    route,          \* the running route() calls
    shortTerm,      \* this.memoryShaping.shortTerm: the entries in insertion order
    midTerm,        \* this.memoryShaping.midTerm: category -> summary entry
    pins,           \* this.memoryShaping.pins
    memoryContext,  \* the context last returned by assembleMemoryContext
    (* pure functions applied to drawn inputs *)
    fnIn,           \* the arguments drawn
    fnOut,          \* the value returned for them
    (* RikaOrchestrator (src/server-v3.js) and VoiceEngine (src/lib/voice-engine.js) *)
    chat,           \* the running chat_message handlers, with the events they sent
    activeStreams,  \* this.activeStreams: session id -> session object
    sessionsMade,   \* how many session objects startVoiceSession has built
    voiceCall,      \* the running processVoiceMessage() call
    voiceResult     \* what the last call into the VoiceEngine returned or threw

brokerVars == <<initPc, env, providers, fallbacks, healthStatus, retryAttempts, probe, call, fb>>

clockVars == <<now, ticks>>

costVars == <<dailyBudget, costTracker, costLog, resets>>

routerVars == <<intentCache, route>>

memVars == <<shortTerm, midTerm, pins, memoryContext>>

fnVars == <<fnIn, fnOut>>

serverVars == <<chat, activeStreams, sessionsMade, voiceCall, voiceResult>>

vars == <<brokerVars, clockVars, costVars, routerVars, memVars, fnVars, serverVars>>

----------------------------------------------------------------------------
(* Bounds of the model *)

\* a health record's consecutiveFailures is not raised past this
MaxFailures == 4
\* underlying provider calls one callProvider() invocation is followed for
MaxMade == 4

\* the cost checks one ledger day is followed for
MaxRequests == 5
\* the requests one ledger day admits in the router runs
MaxRouted == 3
\* the clock is advanced at most this many times
MaxTicks == 2
\* the pin set is followed up to this many items
MaxPins == 1
\* the stores of one mid-term summary that are counted
MaxAccess == 2
\* the voice sessions started in one run
MaxSessions == 2
\* the voice messages processed for one session
MaxMessages == 1

(* Program constants *)

\* part_003:220  health.consecutiveFailures > 3
FailureCeiling == 3
\* part_003:224  options.maxRetries || 3
DefaultMaxRetries == 3
\* part_003:277  Math.pow(2, currentAttempt) * 1000: one time unit, in milliseconds
BackoffUnitMs == 1000
\* part_004:127  Date.now() - cached.timestamp < 300000
IntentCacheTtl == 300000
\* part_004:290  intent.estimatedTokens > 1000
CouncilTokenThreshold == 1000
\* part_004:304  const budgetMs = 120
CouncilBudgetMs == 120
\* part_004:414  estimatedTokens: 500 of the fallback intent
FallbackTokens == 500
\* part_004:62  decay.shortTerm, 1 hour
ShortTermDecay == 3600000
\* part_004:63  decay.midTerm, 1 day
MidTermDecay == 86400000
\* part_004:207  .slice(-10)
ShortTermWindow == 10
\* part_004:236  || 10.0, in CostUnits (1 CostUnit = 10^-8 dollars)
DefaultDailyBudget == 1000000000

----------------------------------------------------------------------------
(* ToolBroker: static structure *)

\* the providers of the model: one whose probe awaits a network call that
\* may fail (openai) and one whose probe is the synchronous default (pinecone)
ProviderNames == {"openai", "pinecone"}

\* names that only occur as the tail of a fallback chain or as a service name
OtherNames == {"local", "sqlite"}

Operations == {"chat", "query"}

\* the values of options.maxRetries; 0 stands for every falsy value (undefined, 0)
RetryOptions == {0, 1}

Calls == {1, 2}
Rounds == {"r1", "r2"}
Fallbacks == {"f1"}
Services == {"llm", "vector", "openai"}

\* the (provider, operation) pairs outside callers invoke, and the
\* (service, operation) pairs they call with fallback
CallSites == {<<"openai", "chat">>}
FallbackSites == {<<"llm", "chat">>, <<"vector", "query">>, <<"openai", "chat">>}

\* the invocation slot a new invocation takes: the lowest idle one
FreeSlot(c) == call[c].pc = "idle" /\ \A d \in Calls : call[d].pc = "idle" => c <= d

\* callProvider: options.maxRetries || 3
MaxRetriesOf(opt) == IF opt = 0 THEN DefaultMaxRetries ELSE opt

\* the keys of this.retryAttempts: `${providerName}-${operation}` written by
\* callProvider, and the bare provider name deleted by performHealthChecks
PairKey(p, op) == <<p, op>>
NameKey(p) == <<p>>
RetryKeys == {PairKey(p, op) : p \in ProviderNames, op \in Operations}
                \cup {NameKey(p) : p \in ProviderNames}

\* setupFallbacks
ConfiguredFallbacks ==
    [s \in {"llm", "vector"} |-> IF s = "llm" THEN <<"openai", "local">>
                                              ELSE <<"pinecone", "sqlite">>]

\* a mutation of the chain lookup: a first provider that is not registered
\* is moved behind the second one
ChainOfAvailableFirst(service) ==
    IF service \in DOMAIN fallbacks
      THEN IF fallbacks[service][1] \in providers
             THEN fallbacks[service]
             ELSE <<fallbacks[service][2], fallbacks[service][1]>>
      ELSE <<service>>

\* callWithFallback: this.fallbacks.get(service) || [service]
ChainOf(service) ==
    IF service \in DOMAIN fallbacks THEN fallbacks[service] ELSE <<service>>

\* callOpenAI / callPinecone: the operations that do not throw 'Unknown operation'
OpSupported(p, op) ==
    \/ p = "openai" /\ op = "chat"
    \/ p = "pinecone" /\ op = "query"

----------------------------------------------------------------------------
(* Values *)

NoHealth == [known |-> FALSE, healthy |-> FALSE, consecutiveFailures |-> 0]
Health(h, n) == [known |-> TRUE, healthy |-> h, consecutiveFailures |-> n]

\* what an invocation settles with: the result, or the Error thrown; `cause`
\* is the error a thrown Error wraps (none of the Errors built by the broker
\* is given one)
NoRes == [ok |-> FALSE, msg |-> "none", provider |-> "none", cause |-> "none"]
Ok(p) == [ok |-> TRUE, msg |-> "ok", provider |-> p, cause |-> "none"]
Err(m, p) == [ok |-> FALSE, msg |-> m, provider |-> p, cause |-> "none"]

IdleCall == [pc |-> "idle", provider |-> "none", op |-> "none", opt |-> 0,
             cur |-> 0, made |-> 0, delay |-> 0, res |-> NoRes, owner |-> "none"]

IdleProbe == [pc |-> "idle"]

IdleFb == [pc |-> "idle", service |-> "none", op |-> "none", opt |-> 0,
           chain |-> <<>>, idx |-> 0, slot |-> "none", tried |-> <<>>,
           caught |-> <<>>, res |-> NoRes, errors |-> <<>>]

----------------------------------------------------------------------------
(* ToolBroker.callProvider *)

\* a mutation of the circuit-breaker test: rejects at the ceiling already
IsUnhealthyAtCeiling(p) ==
    /\ healthStatus[p].known
    /\ ~healthStatus[p].healthy
    /\ healthStatus[p].consecutiveFailures >= FailureCeiling

\* health && !health.healthy && health.consecutiveFailures > 3
IsUnhealthy(p) ==
    /\ healthStatus[p].known
    /\ ~healthStatus[p].healthy
    /\ healthStatus[p].consecutiveFailures > FailureCeiling

\* a mutation of the prefix of callProvider: an attempt is made on a
\* provider that is not registered before the invocation fails
EnteredCallsUnregistered(p, op, opt, owner, made0) ==
    LET base == [pc |-> "done", provider |-> p, op |-> op, opt |-> opt,
                 cur |-> 0, made |-> made0, delay |-> 0, res |-> NoRes, owner |-> owner]
    IN  IF p \notin providers
          THEN [base EXCEPT !.res = Err("not_available", p), !.made = made0 + 1]
        ELSE IF IsUnhealthy(p)
          THEN [base EXCEPT !.res = Err("unhealthy", p)]
        ELSE IF retryAttempts[PairKey(p, op)] >= MaxRetriesOf(opt)
          THEN [base EXCEPT !.res = Err("max_retries", p)]
        ELSE [base EXCEPT !.pc = "await",
                          !.cur = retryAttempts[PairKey(p, op)],
                          !.made = made0 + 1]

\* The synchronous prefix of callProvider, up to the await of the provider
\* call: the record of the invocation after it.  made0 is the number of
\* provider calls already made on behalf of the same outer invocation.
Entered(p, op, opt, owner, made0) ==
    LET base == [pc |-> "done", provider |-> p, op |-> op, opt |-> opt,
                 cur |-> 0, made |-> made0, delay |-> 0, res |-> NoRes, owner |-> owner]
    IN  IF p \notin providers
          THEN [base EXCEPT !.res = Err("not_available", p)]
        ELSE IF IsUnhealthy(p)
          THEN [base EXCEPT !.res = Err("unhealthy", p)]
        ELSE IF retryAttempts[PairKey(p, op)] >= MaxRetriesOf(opt)
          THEN [base EXCEPT !.res = Err("max_retries", p)]
        ELSE [base EXCEPT !.pc = "await",
                          !.cur = retryAttempts[PairKey(p, op)],
                          !.made = made0 + 1]

\* a caller outside the broker calls callProvider(p, op, params, {maxRetries: opt})
Invoke(c, p, op, opt) ==
    /\ FreeSlot(c)
    /\ call' = [call EXCEPT ![c] = Entered(p, op, opt, "direct", 0)]
    /\ UNCHANGED <<initPc, env, providers, fallbacks, healthStatus, retryAttempts, probe, fb>>

\* the awaited provider call resolves: retryAttempts.delete(key); return result
CallSucceeds(c) ==
    /\ call[c].pc = "await"
    /\ OpSupported(call[c].provider, call[c].op)
    /\ retryAttempts' = [retryAttempts EXCEPT ![PairKey(call[c].provider, call[c].op)] = 0]
    /\ call' = [call EXCEPT ![c].pc = "done", ![c].res = Ok(call[c].provider)]
    /\ UNCHANGED <<initPc, env, providers, fallbacks, healthStatus, probe, fb>>

\* a mutation of the backoff delay: computed from nextAttempt
BackoffDelayOfNext(currentAttempt) == 2^(currentAttempt + 1) * BackoffUnitMs

\* const delay = Math.pow(2, currentAttempt) * 1000
BackoffDelay(currentAttempt) == 2^currentAttempt * BackoffUnitMs

\* the awaited provider call rejects: the catch block of callProvider
CallFails(c) ==
    /\ call[c].pc = "await"
    /\ LET nextAttempt == call[c].cur + 1
       IN  /\ retryAttempts' = [retryAttempts EXCEPT
                   ![PairKey(call[c].provider, call[c].op)] = nextAttempt]
           /\ IF nextAttempt < MaxRetriesOf(call[c].opt)
                THEN call' = [call EXCEPT ![c].pc = "backoff",
                                          ![c].delay = BackoffDelay(call[c].cur)]
                ELSE call' = [call EXCEPT ![c].pc = "done",
                                          ![c].res = Err("provider_error", call[c].provider)]
    /\ UNCHANGED <<initPc, env, providers, fallbacks, healthStatus, probe, fb>>

\* await this.delay(delay) is over: return this.callProvider(same arguments)
BackoffElapsed(c) ==
    /\ call[c].pc = "backoff"
    /\ call[c].made < MaxMade
    /\ call' = [call EXCEPT ![c] =
                  Entered(call[c].provider, call[c].op, call[c].opt, call[c].owner, call[c].made)]
    /\ UNCHANGED <<initPc, env, providers, fallbacks, healthStatus, retryAttempts, probe, fb>>

\* the same callback in the runs that follow an invocation for as long as
\* it retries: the count of its provider calls stops at MaxMade
BackoffElapsedAgain(c) ==
    /\ call[c].pc = "backoff"
    /\ call' = [call EXCEPT ![c] =
                  Entered(call[c].provider, call[c].op, call[c].opt, call[c].owner,
                          IF call[c].made < MaxMade THEN call[c].made ELSE MaxMade - 1)]
    /\ UNCHANGED <<initPc, env, providers, fallbacks, healthStatus, retryAttempts, probe, fb>>

\* the outside caller has taken the result (or the error) of its invocation
Return(c) ==
    /\ call[c].pc = "done"
    /\ call[c].owner = "direct"
    /\ call' = [call EXCEPT ![c] = IdleCall]
    /\ UNCHANGED <<initPc, env, providers, fallbacks, healthStatus, retryAttempts, probe, fb>>

----------------------------------------------------------------------------
(* ToolBroker.performHealthChecks *)

\* a mutation of the record written by a probe that did not throw: the
\* healthy flag is set whatever the ping reported
ProbedHealthFlagSet(name, isHealthy) ==
    Health(TRUE,
           IF isHealthy THEN 0 ELSE healthStatus[name].consecutiveFailures + 1)

\* the record written when the probe of `name` did not throw
ProbedHealth(name, isHealthy) ==
    Health(isHealthy,
           IF isHealthy THEN 0 ELSE healthStatus[name].consecutiveFailures + 1)

\* a mutation of the catch block of the probe: the healthy flag of the
\* record is carried over
ProbeThrewHealthFlagKept(name) ==
    Health(healthStatus[name].healthy, healthStatus[name].consecutiveFailures + 1)

\* a mutation of the catch block of the probe: the failure count starts
\* over at one instead of continuing from the record
ProbeThrewHealthFromOne(name) ==
    Health(FALSE, 1)

\* the record written by the catch block of the probe of `name`
ProbeThrewHealth(name) ==
    Health(FALSE, healthStatus[name].consecutiveFailures + 1)

\* a mutation of the rest of the for-loop: the round ends after openai
AfterPineconeSkipped(hs) == hs

\* the rest of the for-loop after openai: pinecone takes the default branch
\* (isHealthy = true, no await), so it is probed in the same callback
AfterPinecone(hs) ==
    IF "pinecone" \in providers
      THEN [hs EXCEPT !["pinecone"] = Health(TRUE, 0)]
      ELSE hs

\* if (isHealthy) this.retryAttempts.delete(name)
DeleteName(ra, name) == [ra EXCEPT ![NameKey(name)] = 0]

\* a mutation of the start of a round: a provider whose circuit is open is
\* left out of the round
ProbeStartEligibleOnly(r) ==
    /\ probe[r].pc = "idle"
    /\ ~IsUnhealthy("openai")
    /\ IF "openai" \in providers
         THEN /\ probe' = [probe EXCEPT ![r].pc = "await"]
              /\ UNCHANGED <<healthStatus, retryAttempts>>
         ELSE /\ "pinecone" \in providers
              /\ healthStatus' = AfterPinecone(healthStatus)
              /\ retryAttempts' = DeleteName(retryAttempts, "pinecone")
              /\ UNCHANGED probe
    /\ UNCHANGED <<initPc, env, providers, fallbacks, call, fb>>

\* the timer fires: a round starts and runs to its first await
ProbeStart(r) ==
    /\ probe[r].pc = "idle"
    /\ IF "openai" \in providers
         THEN /\ probe' = [probe EXCEPT ![r].pc = "await"]
              /\ UNCHANGED <<healthStatus, retryAttempts>>
         ELSE /\ "pinecone" \in providers
              /\ healthStatus' = AfterPinecone(healthStatus)
              /\ retryAttempts' = DeleteName(retryAttempts, "pinecone")
              /\ UNCHANGED probe
    /\ UNCHANGED <<initPc, env, providers, fallbacks, call, fb>>

\* the openai ping of round r returns (healthy or not) or throws
ProbeReturn(r, outcome) ==
    /\ probe[r].pc = "await"
    /\ outcome \in {"healthy", "unhealthy", "throws"}
    /\ outcome # "healthy" => healthStatus["openai"].consecutiveFailures < MaxFailures
    /\ LET hs == [healthStatus EXCEPT !["openai"] =
                     IF outcome = "throws" THEN ProbeThrewHealth("openai")
                     ELSE ProbedHealth("openai", outcome = "healthy")]
           ra == IF outcome = "healthy" THEN DeleteName(retryAttempts, "openai")
                 ELSE retryAttempts
       IN  /\ healthStatus' = AfterPinecone(hs)
           /\ retryAttempts' = IF "pinecone" \in providers
                                 THEN DeleteName(ra, "pinecone") ELSE ra
    /\ probe' = [probe EXCEPT ![r].pc = "idle"]
    /\ UNCHANGED <<initPc, env, providers, fallbacks, call, fb>>

----------------------------------------------------------------------------
(* ToolBroker.initializeProviders *)

\* await pinecone.init(...) returns or throws; the rest of the function runs
PineconeInitReturn(ok) ==
    /\ initPc = "pinecone_init"
    /\ providers' = IF ok THEN providers \cup {"pinecone"} ELSE providers
    /\ fallbacks' = ConfiguredFallbacks
    /\ initPc' = "done"
    /\ UNCHANGED <<env, healthStatus, retryAttempts, probe, call, fb>>

----------------------------------------------------------------------------
(* ToolBroker.callWithFallback *)

\* throw new Error(`All providers failed for service: ${service}`): the
\* errors the thrown Error carries, given the errors caught in the loop
AllFailedErrors(caught) == <<>>

\* callWithFallback(service, op, params, {maxRetries: opt}): the chain is
\* looked up and callProvider is entered for its first provider
FbStart(f, service, op, opt) ==
    /\ fb[f].pc = "idle"
    /\ \E c \in Calls :
         /\ FreeSlot(c)
         /\ LET chain == ChainOf(service)
            IN  /\ call' = [call EXCEPT ![c] = Entered(chain[1], op, opt, f, 0)]
                /\ fb' = [fb EXCEPT ![f] =
                            [IdleFb EXCEPT !.pc = "run", !.service = service, !.op = op,
                                           !.opt = opt, !.chain = chain, !.idx = 1,
                                           !.slot = c, !.tried = <<chain[1]>>]]
    /\ UNCHANGED <<initPc, env, providers, fallbacks, healthStatus, retryAttempts, probe>>

\* the awaited callProvider of the current chain entry has settled:
\* return its result, or catch its error and go on with the next entry
FbStep(f) ==
    /\ fb[f].pc = "run"
    /\ LET c == fb[f].slot
           r == call[c].res
       IN  /\ call[c].pc = "done"
           /\ IF r.ok
                THEN /\ fb' = [fb EXCEPT ![f].pc = "done", ![f].res = r]
                     /\ call' = [call EXCEPT ![c] = IdleCall]
              ELSE IF fb[f].idx < Len(fb[f].chain)
                THEN LET next == fb[f].chain[fb[f].idx + 1]
                     IN  /\ fb' = [fb EXCEPT ![f].idx = @ + 1,
                                             ![f].tried = Append(@, next),
                                             ![f].caught = Append(@, r)]
                         /\ call' = [call EXCEPT ![c] =
                                       Entered(next, fb[f].op, fb[f].opt, f, 0)]
              ELSE /\ fb' = [fb EXCEPT ![f].pc = "done",
                                       ![f].caught = Append(@, r),
                                       ![f].res = Err("all_providers_failed", fb[f].service),
                                       ![f].errors = AllFailedErrors(Append(fb[f].caught, r))]
                   /\ call' = [call EXCEPT ![c] = IdleCall]
    /\ UNCHANGED <<initPc, env, providers, fallbacks, healthStatus, retryAttempts, probe>>

\* the caller has taken the result (or the error) of callWithFallback
FbReturn(f) ==
    /\ fb[f].pc = "done"
    /\ fb' = [fb EXCEPT ![f] = IdleFb]
    /\ UNCHANGED <<initPc, env, providers, fallbacks, healthStatus, retryAttempts, probe, call>>

----------------------------------------------------------------------------
(* IntelligenceRouter: values *)

\* the closed set of categories of the classification prompt
Categories == {"security", "creative", "research", "learning", "content",
               "fashion", "finance", "fitness", "general"}
Urgencies == {"low", "medium", "high"}
Complexities == {"simple", "moderate", "complex"}
TierNames == {"realtime", "interactive", "batch"}

\* the messages of the model and message.length of each
Messages == {"ok?", "What's the weather effect on my portfolio?"}
MsgLen(m) == IF m = "ok?" THEN 3 ELSE 42

\* the values process.env.DAILY_BUDGET_USD takes in the model, in CostUnits
Budgets == {6000, 10000}
\* the one the router runs are made with
RouterBudgets == {6000}

\* initQoSTiers: the model of a tier and its costMultiplier, in tenths
TierModel(t) == IF t = "realtime" THEN "gpt-3.5-turbo" ELSE "gpt-4"
CostMultiplierTenths(t) ==
    CASE t = "realtime" -> 15
      [] t = "interactive" -> 10
      [] t = "batch" -> 7

\* estimateRequestCost: baseCost per 1K tokens (0.0015 and 0.03 dollars),
\* here per token in CostUnits
BaseCost(model) == IF model = "gpt-4" THEN 3000 ELSE 150

\* Math.ceil(a / b)
CeilDiv(a, b) == (a + b - 1) \div b

\* estimateRequestCost(qosTier, message), in CostUnits
estimateRequestCost(t, m) ==
    (CeilDiv(MsgLen(m), 3) * BaseCost(TierModel(t)) * CostMultiplierTenths(t)) \div 10

----------------------------------------------------------------------------
(* IntelligenceRouter.selectQoSTier *)

\* a mutation of selectQoSTier: the urgency rule is tested before the voice rule
selectQoSTierUrgencyFirst(intent, context) ==
    IF intent.urgency = "high" THEN "interactive"
    ELSE IF context.isVoice \/ context.isCall THEN "realtime"
    ELSE IF intent.complexity = "complex" /\ intent.category = "research" THEN "batch"
    ELSE "interactive"

\* selectQoSTier(intent, context): the name of the tier returned
selectQoSTier(intent, context) ==
    IF context.isVoice \/ context.isCall THEN "realtime"
    ELSE IF intent.urgency = "high" THEN "interactive"
    ELSE IF intent.complexity = "complex" /\ intent.category = "research" THEN "batch"
    ELSE "interactive"

\* no pure function is being applied
FnIdle ==
    /\ fnIn = [fn |-> "none"]
    /\ fnOut = [fn |-> "none"]

\* the arguments of selectQoSTier: the fields of intent and context it reads
QoSInputs ==
    [fn : {"selectQoSTier"}, isVoice : BOOLEAN, isCall : BOOLEAN,
     urgency : Urgencies, complexity : Complexities, category : Categories]

ApplySelectQoSTier ==
    /\ fnIn.fn = "selectQoSTier"
    /\ fnOut.fn = "none"
    /\ fnOut' = [fn |-> "selectQoSTier",
                 tier |-> selectQoSTier(
                     [urgency |-> fnIn.urgency, complexity |-> fnIn.complexity,
                      category |-> fnIn.category],
                     [isVoice |-> fnIn.isVoice, isCall |-> fnIn.isCall])]
    /\ UNCHANGED fnIn

----------------------------------------------------------------------------
(* IntelligenceRouter.checkCostSentinel / resetDailyCosts *)

\* a mutation of the budget test: a request that would spend the budget to
\* the last unit is rejected
CostRejectsAtBudget(daily, est, budget) == daily + est >= budget

\* a mutation of the budget test: the spend is compared before the estimate
\* is added
CostRejectsSpendOnly(daily, est, budget) == daily > budget

\* if (this.costTracker.daily + estimatedCost > dailyBudget)
CostRejects(daily, est, budget) == daily + est > budget

\* a mutation of the object returned: the remaining budget is computed
\* before the estimate is added to the spend
CostCheckStaleRemaining(t, m) ==
    LET est == estimateRequestCost(t, m)
    IN  IF CostRejects(costTracker.daily, est, dailyBudget)
          THEN [allowed |-> FALSE, estimatedCost |-> est,
                currentSpend |-> costTracker.daily, dailyBudget |-> dailyBudget,
                remainingBudget |-> 0]
          ELSE [allowed |-> TRUE, estimatedCost |-> est,
                currentSpend |-> costTracker.daily, dailyBudget |-> dailyBudget,
                remainingBudget |-> dailyBudget - costTracker.daily]

\* the object checkCostSentinel returns
CostCheck(t, m) ==
    LET est == estimateRequestCost(t, m)
    IN  IF CostRejects(costTracker.daily, est, dailyBudget)
          THEN [allowed |-> FALSE, estimatedCost |-> est,
                currentSpend |-> costTracker.daily, dailyBudget |-> dailyBudget,
                remainingBudget |-> 0]
          ELSE [allowed |-> TRUE, estimatedCost |-> est,
                currentSpend |-> costTracker.daily, dailyBudget |-> dailyBudget,
                remainingBudget |-> dailyBudget - (costTracker.daily + est)]

\* a mutation of the ledger update: a rejected request is counted as well
CostTrackerCountsRejected(t, m) ==
    IF CostCheck(t, m).allowed
      THEN [daily |-> costTracker.daily + estimateRequestCost(t, m),
            requests |-> costTracker.requests + 1]
      ELSE [costTracker EXCEPT !.requests = @ + 1]

\* this.costTracker after checkCostSentinel
CostTrackerAfter(t, m) ==
    IF CostCheck(t, m).allowed
      THEN [daily |-> costTracker.daily + estimateRequestCost(t, m),
            requests |-> costTracker.requests + 1]
      ELSE costTracker

\* checkCostSentinel(qosTier, message), called on its own
CheckCost(t, m) ==
    /\ Len(costLog) < MaxRequests
    /\ costTracker' = CostTrackerAfter(t, m)
    /\ costLog' = Append(costLog, CostCheck(t, m))
    /\ UNCHANGED <<dailyBudget, resets>>

\* resetDailyCosts(), run by the daily cron job
ResetDailyCosts ==
    /\ costTracker' = [daily |-> 0, requests |-> 0]
    /\ costLog' = <<>>
    /\ resets' = TRUE
    /\ UNCHANGED dailyBudget

CostInit ==
    /\ costTracker = [daily |-> 0, requests |-> 0]
    /\ costLog = <<>>
    /\ resets = FALSE

----------------------------------------------------------------------------
(* The clock *)

\* time passes between two callbacks
Tick(d) ==
    /\ ticks < MaxTicks
    /\ now' = now + d
    /\ ticks' = ticks + 1

ClockInit ==
    /\ now = 0
    /\ ticks = 0

----------------------------------------------------------------------------
(* IntelligenceRouter: memory shaping *)

\* the keys conversation handling stores short-term items under
Keys == {"k1", "k2"}

NoSummary == [present |-> FALSE, timestamp |-> 0, accessCount |-> 0]

NoContext == [assembled |-> FALSE, shortTerm |-> <<>>, midTerm |-> <<>>,
              longTerm |-> <<>>, pins |-> {}]

\* the entries of a Map kept in insertion order: the position of key, or 0
PositionOf(entries, key) ==
    IF \E i \in 1..Len(entries) : entries[i].key = key
      THEN CHOOSE i \in 1..Len(entries) : entries[i].key = key
      ELSE 0

\* Map.prototype.set: a key already present keeps its position
MapSet(entries, key, ts) ==
    IF PositionOf(entries, key) = 0
      THEN Append(entries, [key |-> key, timestamp |-> ts])
      ELSE [entries EXCEPT ![PositionOf(entries, key)].timestamp = ts]

\* the entries for which keep holds, in their order
RECURSIVE Surviving(_, _, _)
Surviving(entries, maxAge, t) ==
    IF entries = <<>> THEN <<>>
    ELSE IF t - Head(entries).timestamp > maxAge
      THEN Surviving(Tail(entries), maxAge, t)
      ELSE <<Head(entries)>> \o Surviving(Tail(entries), maxAge, t)

\* cleanupMemory('shortTerm'): what is left of the short-term tier
cleanupShortTerm(entries) == Surviving(entries, ShortTermDecay, now)

\* a mutation of the mid-term sweep: an item at the horizon is removed
cleanupMidTermAtHorizon(summaries) ==
    [c \in DOMAIN summaries |->
        IF summaries[c].present /\ now - summaries[c].timestamp >= MidTermDecay
          THEN NoSummary ELSE summaries[c]]

\* cleanupMemory('midTerm'): what is left of the mid-term tier
cleanupMidTerm(summaries) ==
    [c \in DOMAIN summaries |->
        IF summaries[c].present /\ now - summaries[c].timestamp > MidTermDecay
          THEN NoSummary ELSE summaries[c]]

\* Array.prototype.slice(-n)
LastN(seq, n) ==
    IF Len(seq) <= n THEN seq ELSE SubSeq(seq, Len(seq) - n + 1, Len(seq))

\* assembleMemoryContext(message, intent): the context returned
assembleMemoryContext(intent) ==
    [assembled |-> TRUE,
     shortTerm |-> LastN(shortTerm, ShortTermWindow),
     midTerm |-> IF intent.category \in DOMAIN midTerm /\ midTerm[intent.category].present
                   THEN <<midTerm[intent.category]>> ELSE <<>>,
     longTerm |-> <<>>,
     pins |-> pins]

\* storeShortTermMemory(key, value): set, then cleanupMemory('shortTerm')
StoreShortTermMemory(key) ==
    /\ shortTerm' = Surviving(MapSet(shortTerm, key, now), ShortTermDecay, now)
    /\ UNCHANGED <<midTerm, pins, memoryContext>>

\* storeMidTermMemory(category, summary): the summary replaces the one
\* stored before and counts one access more
StoreMidTermMemory(category) ==
    /\ midTerm[category].accessCount < MaxAccess
    /\ midTerm' = [midTerm EXCEPT ![category] =
                      [present |-> TRUE, timestamp |-> now,
                       accessCount |-> midTerm[category].accessCount + 1]]
    /\ UNCHANGED <<shortTerm, pins, memoryContext>>

\* pinToMemory(item): the item stored under key is added to the pin set
PinToMemory(key) ==
    /\ Cardinality(pins) < MaxPins
    /\ pins' = pins \cup {[key |-> key, pinnedAt |-> now]}
    /\ UNCHANGED <<shortTerm, midTerm, memoryContext>>

\* performMemoryCleanup of the server, every hour: both tiers are swept
MemoryCleanup ==
    /\ shortTerm' = cleanupShortTerm(shortTerm)
    /\ midTerm' = cleanupMidTerm(midTerm)
    /\ UNCHANGED <<pins, memoryContext>>

\* a mutation of the assembly: it sweeps the short-term tier before reading
AssembleMemorySweeping(category) ==
    /\ shortTerm' = cleanupShortTerm(shortTerm)
    /\ memoryContext' = [assembleMemoryContext([category |-> category])
                            EXCEPT !.shortTerm = LastN(shortTerm', ShortTermWindow)]
    /\ UNCHANGED <<midTerm, pins>>

\* assembleMemoryContext called for an intent of the given category
AssembleMemory(category) ==
    /\ memoryContext' = assembleMemoryContext([category |-> category])
    /\ UNCHANGED <<shortTerm, midTerm, pins>>

MemInit ==
    /\ shortTerm = <<>>
    /\ midTerm = [c \in Categories |-> NoSummary]
    /\ pins = {}
    /\ memoryContext = NoContext

----------------------------------------------------------------------------
(* IntelligenceRouter.route and its stages *)

Routes == {1, 2}

\* the route() record a new request takes: the lowest idle one
FreeRoute(r) == route[r].pc = "idle" /\ \A q \in Routes : route[q].pc = "idle" => r <= q

\* the contexts route() is called with
\* conversationId / previousMessage: whether the context carries one
PlainContext == [isVoice |-> FALSE, isCall |-> FALSE, preferredAgent |-> "none",
                 conversationId |-> FALSE, previousMessage |-> FALSE,
                 isNull |-> FALSE]

\* route(message, null): the default `context = {}` replaces undefined only,
\* so every read of a property of the context throws a TypeError
NullContext == [PlainContext EXCEPT !.isNull = TRUE]

\* the correlation id uuidv4() generates for the request held in record r
RoutingId(r) == r
Contexts == {PlainContext, [PlainContext EXCEPT !.isVoice = TRUE]}

\* the objects the classification reply parses to
LlmIntents ==
    {[category |-> "finance", confidenceTenths |-> 9, urgency |-> "high",
      complexity |-> "moderate", requiresTools |-> TRUE, estimatedTokens |-> 1500],
     [category |-> "research", confidenceTenths |-> 8, urgency |-> "low",
      complexity |-> "complex", requiresTools |-> FALSE, estimatedTokens |-> 800]}

\* a classification reply that JSON.parse (or the enrichment of a parsed
\* value that is not an object) throws on
UnparsableIntent == [category |-> "unparsable", confidenceTenths |-> 0, urgency |-> "none",
                     complexity |-> "none", requiresTools |-> FALSE, estimatedTokens |-> 0]

\* the objects the council reply parses to
LlmAdvice == {[recommendation |-> "proceed"], [recommendation |-> "block"]}

\* a council reply that JSON.parse throws on
UnparsableAdvice == [recommendation |-> "unparsable"]

\* hashMessage: the first 8 hex digits of the md5 of the message
hashMessage(m) == IF m = "ok?" THEN "9f2a11c0" ELSE "5b07e3d4"
Hashes == {hashMessage(m) : m \in Messages}

NoIntent == [category |-> "none", confidenceTenths |-> 0, urgency |-> "none",
             complexity |-> "none", requiresTools |-> FALSE, estimatedTokens |-> 0,
             hasContext |-> "undefined", isFollowUp |-> "undefined",
             source |-> "none"]

\* a mutation of getFallbackIntent: the default intent is marked urgent
getFallbackIntentUrgent ==
    [category |-> "general", confidenceTenths |-> 5, urgency |-> "high",
     complexity |-> "moderate", requiresTools |-> FALSE,
     estimatedTokens |-> FallbackTokens,
     hasContext |-> "undefined", isFollowUp |-> "undefined", source |-> "fallback"]

\* getFallbackIntent; confidence 0.5 is held in tenths
getFallbackIntent ==
    [category |-> "general", confidenceTenths |-> 5, urgency |-> "medium",
     complexity |-> "moderate", requiresTools |-> FALSE,
     estimatedTokens |-> FallbackTokens,
     hasContext |-> "undefined", isFollowUp |-> "undefined", source |-> "fallback"]

\* !!value of a context property, as the JavaScript boolean written to the intent
Flag(carried) == IF carried THEN "true" ELSE "false"

\* the intent built from a parsed classification reply, with the context
\* enhancements: hasContext = !!context.conversationId, isFollowUp =
\* !!context.previousMessage
ParsedIntent(i, context) ==
    [category |-> i.category, confidenceTenths |-> i.confidenceTenths,
     urgency |-> i.urgency, complexity |-> i.complexity,
     requiresTools |-> i.requiresTools, estimatedTokens |-> i.estimatedTokens,
     hasContext |-> Flag(context.conversationId),
     isFollowUp |-> Flag(context.previousMessage),
     source |-> "provider"]

NoEntry == [present |-> FALSE, intent |-> NoIntent, timestamp |-> 0]

\* withinBudget is "undefined" where the object has no such property
NoAdvice == [kind |-> "null", recommendation |-> "none", reason |-> "none",
             councilTime |-> 0, withinBudget |-> "undefined"]

NoDecision == [made |-> FALSE, id |-> 0, error |-> FALSE, message |-> "",
               targetAgent |-> "none", tier |-> "none", councilAdvice |-> NoAdvice]

\* the handler of a chat_message event: `sent` are the events emitted to the
\* sender, `broadcast` the events emitted to the other sockets
IdleChat == [pc |-> "idle", msg |-> "none", agentId |-> "none", targetAgent |-> "none",
             routingId |-> 0, slot |-> 0, invoked |-> 0, sent |-> <<>>, broadcast |-> <<>>]

\* new Map(): no session
NoStreams == [id \in {} |-> 0]

IdleVoiceCall == [pc |-> "idle", sessionId |-> <<>>, object |-> 0, startTime |-> 0]

NoVoiceResult == [op |-> "none", sessionId |-> <<>>, value |-> "none"]

IdleRoute == [pc |-> "idle", id |-> 0, msg |-> "none", ctx |-> PlainContext, startedAt |-> 0,
              councilStartTime |-> 0,
              slot |-> 0, intent |-> NoIntent, classCalls |-> 0, cacheHit |-> FALSE,
              classified |-> "none", admitted |-> "none", reviewed |-> "none",
              stages |-> <<>>, finished |-> 0, decision |-> NoDecision]

\* the property names an object literal inherits from Object.prototype
\* (those followed here): looking one up yields a function, which is truthy
InheritedKeys == {"constructor", "toString"}

\* selectTargetAgent: agentMap[intent.category] || 'rika'; "inherited" is
\* the value of a property that agentMap does not own
AgentMap(category) ==
    CASE category \in InheritedKeys -> "inherited"
      [] category = "security" -> "echo"
      [] category = "creative" -> "rig"
      [] category = "research" -> "scout"
      [] category = "learning" -> "kibo"
      [] category = "content" -> "craft"
      [] category = "fashion" -> "moda"
      [] category = "finance" -> "mint"
      [] category = "fitness" -> "pulse"
      [] OTHER -> "rika"

\* isAgentAvailable
isAgentAvailable(agentId) ==
    agentId \in {"rika", "echo", "rig", "scout", "kibo", "craft", "moda", "mint", "pulse"}

\* selectTargetAgent(intent, context)
selectTargetAgent(intent, context) ==
    IF context.preferredAgent # "none" /\ isAgentAvailable(context.preferredAgent)
      THEN context.preferredAgent
      ELSE AgentMap(intent.category)

\* the arguments of selectTargetAgent: the category of the intent (one of
\* the closed set, none at all, or another string the reply carried) and the
\* preferredAgent of the context
AgentInputs ==
    [fn : {"selectTargetAgent"},
     category : Categories \cup {"undefined", "poetry"} \cup InheritedKeys,
     preferredAgent : {"none", "rika", "mint", "echo", "nobody"}]

ApplySelectTargetAgent ==
    /\ fnIn.fn = "selectTargetAgent"
    /\ fnOut.fn = "none"
    /\ fnOut' = [fn |-> "selectTargetAgent",
                 targetAgent |-> selectTargetAgent(
                     [category |-> fnIn.category],
                     [preferredAgent |-> fnIn.preferredAgent])]
    /\ UNCHANGED fnIn

\* a mutation of requiresCouncilCheck: high urgency alone is high-stakes
requiresCouncilCheckAnyUrgent(intent, targetAgent) ==
    \/ intent.urgency = "high"
    \/ targetAgent = "mint" /\ intent.estimatedTokens > CouncilTokenThreshold
    \/ targetAgent = "echo"

\* a mutation of requiresCouncilCheck: the financial rule is left out
requiresCouncilCheckNoFinance(intent, targetAgent) ==
    \/ intent.urgency = "high" /\ intent.complexity = "complex"
    \/ targetAgent = "echo"

\* requiresCouncilCheck(intent, targetAgent)
requiresCouncilCheck(intent, targetAgent) ==
    \/ intent.urgency = "high" /\ intent.complexity = "complex"
    \/ targetAgent = "mint" /\ intent.estimatedTokens > CouncilTokenThreshold
    \/ targetAgent = "echo"

\* a mutation of createErrorResponse: the correlation id is left out
createErrorResponseNoId(message, routingId) ==
    [made |-> TRUE, id |-> 0, error |-> TRUE, message |-> message,
     targetAgent |-> "rika", tier |-> "interactive", councilAdvice |-> NoAdvice]

\* createErrorResponse(message, routingId)
createErrorResponse(message, routingId) ==
    [made |-> TRUE, id |-> routingId, error |-> TRUE, message |-> message,
     targetAgent |-> "rika", tier |-> "interactive", councilAdvice |-> NoAdvice]

\* the cache lookup of classifyIntent: an entry younger than the TTL
CacheHit(m) ==
    /\ intentCache[hashMessage(m)].present
    /\ now - intentCache[hashMessage(m)].timestamp < IntentCacheTtl

\* a mutation of the order of the stages of route(): the cost check runs first
SyncStagesCostFirst == <<"cost", "tier", "memory", "agent">>

\* the stages route() runs between classifyIntent and performCouncilCheck, in
\* the order of its statements: selectQoSTier, assembleMemoryContext,
\* checkCostSentinel, selectTargetAgent
SyncStages == <<"tier", "memory", "cost", "agent">>

\* the first n of them
FirstStages(n) == SubSeq(SyncStages, 1, n)

\* a mutation of the options of the council call: the retries callProvider
\* makes by default
CouncilMaxRetriesDefault == DefaultMaxRetries

\* part_004:323  { maxRetries: 1 }
CouncilMaxRetries == 1

\* route() from the intent returned by classifyIntent up to the council call:
\* tier selection, memory assembly, cost check, agent selection.  No timer or
\* network callback runs between these stages, so they are one step.
\* selectQoSTier reads context.isVoice first: on a null context it throws and
\* the catch block of route() builds the error decision.
AfterClassify(r, rec, intent, freeSlot) ==
    LET tier == selectQoSTier(intent, rec.ctx)
        check == CostCheck(tier, rec.msg)
        target == selectTargetAgent(intent, rec.ctx)
        decided == [NoDecision EXCEPT !.id = rec.id, !.targetAgent = target, !.tier = tier]
    IN  /\ IF rec.ctx.isNull
             THEN /\ route' = [route EXCEPT ![r] =
                        [rec EXCEPT !.pc = "done", !.intent = intent, !.slot = 0,
                                    !.stages = rec.stages \o FirstStages(1),
                                    !.finished = Len(rec.stages) + 1,
                                    !.decision = createErrorResponse(
                                        "Cannot read properties of null", rec.id)]]
                  /\ call' = [call EXCEPT ![freeSlot] = IdleCall]
                  /\ UNCHANGED <<memoryContext, costTracker>>
           ELSE IF ~check.allowed
             THEN /\ route' = [route EXCEPT ![r] =
                        [rec EXCEPT !.pc = "done", !.intent = intent, !.slot = 0,
                                    !.admitted = "no",
                                    !.stages = rec.stages \o FirstStages(3),
                                    !.finished = Len(rec.stages) + 3,
                                    !.decision = createErrorResponse(
                                        "Daily budget exceeded", rec.id)]]
                  /\ call' = [call EXCEPT ![freeSlot] = IdleCall]
                  /\ memoryContext' = assembleMemoryContext(intent)
                  /\ costTracker' = CostTrackerAfter(tier, rec.msg)
           ELSE IF requiresCouncilCheck(intent, target)
             THEN /\ route' = [route EXCEPT ![r] =
                        [rec EXCEPT !.pc = "council", !.intent = intent, !.slot = freeSlot,
                                    !.councilStartTime = now,
                                    !.admitted = "yes",
                                    !.stages = rec.stages \o FirstStages(4) \o <<"council">>,
                                    !.finished = Len(rec.stages) + 4,
                                    !.decision = decided]]
                  /\ call' = [call EXCEPT ![freeSlot] = Entered("openai", "chat", CouncilMaxRetries, "route", 0)]
                  /\ memoryContext' = assembleMemoryContext(intent)
                  /\ costTracker' = CostTrackerAfter(tier, rec.msg)
           ELSE /\ route' = [route EXCEPT ![r] =
                        [rec EXCEPT !.pc = "done", !.intent = intent, !.slot = 0,
                                    !.admitted = "yes",
                                    !.stages = rec.stages \o FirstStages(4),
                                    !.finished = Len(rec.stages) + 4,
                                    !.decision = [decided EXCEPT !.made = TRUE]]]
                /\ call' = [call EXCEPT ![freeSlot] = IdleCall]
                /\ memoryContext' = assembleMemoryContext(intent)
                /\ costTracker' = CostTrackerAfter(tier, rec.msg)
        /\ UNCHANGED <<initPc, env, providers, fallbacks, healthStatus, probe, fb,
                       dailyBudget, costLog, resets, shortTerm, midTerm, pins>>

\* route(message, context) is called: classifyIntent looks the message up in
\* the cache and, on a miss, calls the broker
RouteEnter(r, m, ctx) ==
    /\ FreeRoute(r)
    /\ costTracker.requests < MaxRouted
    /\ \E c \in Calls :
         /\ FreeSlot(c)
         /\ LET rec == [IdleRoute EXCEPT !.id = RoutingId(r), !.msg = m, !.ctx = ctx,
                                         !.startedAt = now, !.stages = <<"classify">>]
            IN  IF CacheHit(m)
                  THEN /\ AfterClassify(r, [rec EXCEPT !.cacheHit = TRUE,
                                                       !.classified = "cached",
                                                       !.finished = 1],
                                        intentCache[hashMessage(m)].intent, c)
                       /\ UNCHANGED <<intentCache, retryAttempts>>
                  ELSE /\ route' = [route EXCEPT ![r] =
                              [rec EXCEPT !.pc = "classify", !.slot = c, !.classCalls = 1]]
                       /\ call' = [call EXCEPT ![c] = Entered("openai", "chat", 0, "route", 0)]
                       /\ UNCHANGED <<initPc, env, providers, fallbacks, healthStatus,
                                      retryAttempts, probe, fb, costVars, intentCache,
                                      memVars>>
    /\ UNCHANGED <<clockVars, fnVars>>

\* route(message, context) called by a caller other than the chat handler
RouteStart(r, m, ctx) == RouteEnter(r, m, ctx) /\ UNCHANGED serverVars

\* what the catch block of classifyIntent caught: the error callProvider
\* threw, the error of JSON.parse on a reply that arrived, or the TypeError
\* of context.conversationId on a null context
ClassificationFailure(res, parsed) ==
    IF ~res.ok THEN res.msg
    ELSE IF parsed = UnparsableIntent THEN "unparsable"
    ELSE "context_error"

\* a mutation of the catch block of classifyIntent: the fallback intent is
\* cached like a parsed one
ClassifyReturnCachingFallback(r, parsed) ==
    /\ route[r].pc = "classify"
    /\ call[route[r].slot].pc = "done"
    /\ IF call[route[r].slot].res.ok /\ parsed # UnparsableIntent /\ ~route[r].ctx.isNull
         THEN /\ intentCache' = [intentCache EXCEPT ![hashMessage(route[r].msg)] =
                    [present |-> TRUE, intent |-> ParsedIntent(parsed, route[r].ctx),
                     timestamp |-> now]]
              /\ AfterClassify(r, [route[r] EXCEPT !.classified = "parsed", !.finished = 1],
                               ParsedIntent(parsed, route[r].ctx), route[r].slot)
         ELSE /\ intentCache' = [intentCache EXCEPT ![hashMessage(route[r].msg)] =
                    [present |-> TRUE, intent |-> getFallbackIntent, timestamp |-> now]]
              /\ AfterClassify(r, [route[r] EXCEPT !.finished = 1, !.classified =
                                     ClassificationFailure(call[route[r].slot].res, parsed)],
                               getFallbackIntent, route[r].slot)
    /\ UNCHANGED <<retryAttempts, clockVars, fnVars, serverVars>>

\* the broker call of classifyIntent has settled; `parsed` is what the reply
\* parses to
ClassifyReturn(r, parsed) ==
    /\ route[r].pc = "classify"
    /\ call[route[r].slot].pc = "done"
    /\ IF call[route[r].slot].res.ok /\ parsed # UnparsableIntent /\ ~route[r].ctx.isNull
         THEN /\ intentCache' = [intentCache EXCEPT ![hashMessage(route[r].msg)] =
                    [present |-> TRUE, intent |-> ParsedIntent(parsed, route[r].ctx),
                     timestamp |-> now]]
              /\ AfterClassify(r, [route[r] EXCEPT !.classified = "parsed", !.finished = 1],
                               ParsedIntent(parsed, route[r].ctx), route[r].slot)
         ELSE /\ UNCHANGED intentCache
              /\ AfterClassify(r, [route[r] EXCEPT !.finished = 1, !.classified =
                                     ClassificationFailure(call[route[r].slot].res, parsed)],
                               getFallbackIntent, route[r].slot)
    /\ UNCHANGED <<retryAttempts, clockVars, fnVars, serverVars>>

\* a mutation of the verdict of the catch block: it advises caution
CouncilUnavailableCaution ==
    [kind |-> "fallback", recommendation |-> "caution", reason |-> "council_unavailable",
     councilTime |-> 0, withinBudget |-> "undefined"]

\* the verdict returned by the catch block of performCouncilCheck, before
\* its councilTime is filled in: it has no withinBudget property
CouncilUnavailable ==
    [kind |-> "fallback", recommendation |-> "proceed", reason |-> "council_unavailable",
     councilTime |-> 0, withinBudget |-> "undefined"]

\* what the catch block of performCouncilCheck caught: the error callProvider
\* threw, or the error of JSON.parse on a reply that arrived
CouncilFailure(res) == IF res.ok THEN "unparsable" ELSE res.msg

\* the broker call of performCouncilCheck has settled; `parsed` is what the
\* reply parses to
CouncilReturn(r, parsed) ==
    /\ route[r].pc = "council"
    /\ call[route[r].slot].pc = "done"
    /\ LET failed == ~call[route[r].slot].res.ok \/ parsed = UnparsableAdvice
           councilTime == now - route[r].councilStartTime
           advice ==
             IF failed
               THEN [CouncilUnavailable EXCEPT !.councilTime = councilTime]
               ELSE [kind |-> "advice", recommendation |-> parsed.recommendation,
                     reason |-> "from_council", councilTime |-> councilTime,
                     withinBudget |-> IF councilTime <= CouncilBudgetMs
                                        THEN "true" ELSE "false"]
       IN  route' = [route EXCEPT ![r].pc = "done", ![r].slot = 0,
                                  ![r].reviewed = IF failed
                                                    THEN CouncilFailure(call[route[r].slot].res)
                                                    ELSE "parsed",
                                  ![r].finished = @ + 1,
                                  ![r].decision.made = TRUE,
                                  ![r].decision.councilAdvice = advice]
    /\ call' = [call EXCEPT ![route[r].slot] = IdleCall]
    /\ UNCHANGED <<initPc, env, providers, fallbacks, healthStatus, retryAttempts, probe, fb,
                   clockVars, costVars, intentCache, memVars, fnVars, serverVars>>

\* the continuation of `await route(...)` runs with the decision
RouteTaken(r) ==
    /\ route[r].pc = "done"
    /\ route' = [route EXCEPT ![r] = IdleRoute]
    /\ UNCHANGED <<brokerVars, clockVars, costVars, intentCache, memVars, fnVars>>

\* a caller other than the chat handler has taken the decision
RouteReturn(r) == RouteTaken(r) /\ UNCHANGED serverVars

\* new RikaOrchestrator(): no chat message is being handled, and the
\* VoiceEngine holds no session
ServerInit ==
    /\ chat = IdleChat
    /\ activeStreams = NoStreams
    /\ sessionsMade = 0
    /\ voiceCall = IdleVoiceCall
    /\ voiceResult = NoVoiceResult

RouterInit ==
    /\ ClockInit
    /\ CostInit
    /\ MemInit
    /\ ServerInit
    /\ intentCache = [h \in Hashes |-> NoEntry]
    /\ route = [r \in Routes |-> IdleRoute]

----------------------------------------------------------------------------
(* RikaOrchestrator: the chat_message handler, processAgentRequest and    *)
(* generateAgentResponse (RIKA_SAFE_MODE is not set)                      *)

\* the agentId a chat_message carries: none ('rika' is the default), a
\* specialist, or a name that is not one
ChatAgentIds == {"rika", "mint", "nobody"}

\* socket.emit(type, {message, routingId})
ChatEvent(type, message, routingId) ==
    [type |-> type, message |-> message, routingId |-> routingId]

\* a chat_message event arrives (the handler of the one before has
\* returned): the handler runs up to the first await inside route()
ChatMessage(m, agentId) ==
    /\ chat.pc \in {"idle", "done"}
    /\ RouteEnter(1, m, [PlainContext EXCEPT !.preferredAgent = agentId])
    /\ chat' = [IdleChat EXCEPT !.pc = "routing", !.msg = m, !.agentId = agentId]
    /\ UNCHANGED <<activeStreams, sessionsMade, voiceCall, voiceResult>>

\* route() has returned.  An error decision is answered with agent_error
\* and the handler returns; otherwise agent_typing is broadcast and
\* processAgentRequest is called, which throws when this.agents has no such
\* agent (the catch block emits agent_error) and else awaits its delay
ChatRouted ==
    /\ chat.pc = "routing"
    /\ RouteTaken(1)
    /\ LET routing == route[1].decision
       IN  IF routing.error
             THEN chat' = [chat EXCEPT
                     !.pc = "done", !.routingId = routing.id,
                     !.sent = Append(@, ChatEvent("agent_error", routing.message, routing.id))]
           ELSE IF ~isAgentAvailable(routing.targetAgent)
             THEN chat' = [chat EXCEPT
                     !.pc = "done", !.routingId = routing.id,
                     !.targetAgent = routing.targetAgent, !.invoked = 1,
                     !.broadcast = Append(@, "agent_typing"),
                     !.sent = Append(@, ChatEvent("agent_error", "Failed to process request", 0))]
           ELSE chat' = [chat EXCEPT
                     !.pc = "agent_delay", !.routingId = routing.id,
                     !.targetAgent = routing.targetAgent, !.invoked = 1,
                     !.broadcast = Append(@, "agent_typing")]
    /\ UNCHANGED <<activeStreams, sessionsMade, voiceCall, voiceResult>>

\* processAgentRequest has its response: the handler emits agent_response
\* to the sender and broadcasts agent_stopped_typing
Responded(ch) ==
    [ch EXCEPT !.pc = "done", !.slot = 0,
               !.sent = Append(@, ChatEvent("agent_response", "response", ch.routingId)),
               !.broadcast = Append(@, "agent_stopped_typing")]

\* await this.delay(processingTime) is over: generateAgentResponse calls
\* the broker when openai is registered, and returns the fallback response
\* at once when it is not
ChatDelayElapsed ==
    /\ chat.pc = "agent_delay"
    /\ IF "openai" \in providers
         THEN \E c \in Calls :
                /\ FreeSlot(c)
                /\ call' = [call EXCEPT ![c] = Entered("openai", "chat", 0, "chat", 0)]
                /\ chat' = [chat EXCEPT !.pc = "agent_call", !.slot = c]
         ELSE /\ chat' = Responded(chat)
              /\ UNCHANGED call
    /\ UNCHANGED <<initPc, env, providers, fallbacks, healthStatus, retryAttempts, probe, fb,
                   clockVars, costVars, routerVars, memVars, fnVars,
                   activeStreams, sessionsMade, voiceCall, voiceResult>>

\* the broker call of generateAgentResponse has settled: its reply, or the
\* fallback response when it threw, is the response
ChatAgentReturn ==
    /\ chat.pc = "agent_call"
    /\ call[chat.slot].pc = "done"
    /\ call' = [call EXCEPT ![chat.slot] = IdleCall]
    /\ chat' = Responded(chat)
    /\ UNCHANGED <<initPc, env, providers, fallbacks, healthStatus, retryAttempts, probe, fb,
                   clockVars, costVars, routerVars, memVars, fnVars,
                   activeStreams, sessionsMade, voiceCall, voiceResult>>

----------------------------------------------------------------------------
(* VoiceEngine: startVoiceSession, processVoiceMessage, endVoiceSession *)

\* the sockets voice events arrive on
Sockets == {"s1"}

\* `voice_${Date.now()}_${socketId}`
SessionId(t, socketId) == <<t, socketId>>

\* the session ids a client can send: those of the sessions that can have
\* been started so far
SessionIds == {SessionId(t, so) : t \in 0..now, so \in Sockets}

\* the session object startVoiceSession builds; `object` tells the objects
\* apart (two objects can carry the same id)
NewSession(object) ==
    [object |-> object, messagesProcessed |-> 0, totalLatency |-> 0, errors |-> 0]

\* Map.prototype.set and Map.prototype.delete
StreamsSet(streams, id, session) ==
    [x \in DOMAIN streams \cup {id} |-> IF x = id THEN session ELSE streams[x]]
StreamsDelete(streams, id) == [x \in DOMAIN streams \ {id} |-> streams[x]]

\* session.metrics.errors++ of the catch block
CountError(session) == [session EXCEPT !.errors = @ + 1]

\* session.metrics.messagesProcessed++; session.metrics.totalLatency += totalLatency
CountMessage(session, totalLatency) ==
    [session EXCEPT !.messagesProcessed = @ + 1, !.totalLatency = @ + totalLatency]

\* the entries after processVoiceMessage has updated the metrics of its
\* session object (failed: in the catch block): an object that is no longer
\* in the Map changes out of sight
StreamsUpdate(streams, object, failed, totalLatency) ==
    [x \in DOMAIN streams |->
        IF streams[x].object # object THEN streams[x]
        ELSE IF failed THEN CountError(streams[x])
        ELSE CountMessage(streams[x], totalLatency)]

\* startVoiceSession(socketId, options)
StartVoiceSession(socketId) ==
    /\ sessionsMade < MaxSessions
    /\ activeStreams' = StreamsSet(activeStreams, SessionId(now, socketId),
                                   NewSession(sessionsMade + 1))
    /\ sessionsMade' = sessionsMade + 1
    /\ voiceResult' = [op |-> "start", sessionId |-> SessionId(now, socketId),
                       value |-> "session"]
    /\ UNCHANGED <<chat, voiceCall>>

\* a mutation of endVoiceSession: the session is marked as ended but stays
\* in the Map
EndVoiceSessionKeepsEntry(sessionId) ==
    /\ voiceResult' = [op |-> "end", sessionId |-> sessionId,
                       value |-> IF sessionId \in DOMAIN activeStreams
                                   THEN "true" ELSE "false"]
    /\ UNCHANGED <<chat, activeStreams, sessionsMade, voiceCall>>

\* endVoiceSession(sessionId): false when the Map has no such session;
\* otherwise the session is deleted and true is returned
EndVoiceSession(sessionId) ==
    /\ IF sessionId \in DOMAIN activeStreams
         THEN /\ activeStreams' = StreamsDelete(activeStreams, sessionId)
              /\ voiceResult' = [op |-> "end", sessionId |-> sessionId, value |-> "true"]
         ELSE /\ UNCHANGED activeStreams
              /\ voiceResult' = [op |-> "end", sessionId |-> sessionId, value |-> "false"]
    /\ UNCHANGED <<chat, sessionsMade, voiceCall>>

\* processVoiceMessage(sessionId, audioData) up to its first await: the
\* lookup of the session, then fs.writeFileSync (written: it did not throw)
ProcessVoiceStart(sessionId, written) ==
    /\ voiceCall.pc = "idle"
    /\ IF sessionId \notin DOMAIN activeStreams
         THEN /\ voiceResult' = [op |-> "process", sessionId |-> sessionId,
                                 value |-> "Voice session not found"]
              /\ UNCHANGED <<activeStreams, voiceCall>>
         ELSE /\ activeStreams[sessionId].messagesProcessed
                    + activeStreams[sessionId].errors < MaxMessages
              /\ IF written
                   THEN /\ voiceCall' = [pc |-> "stt", sessionId |-> sessionId,
                                         object |-> activeStreams[sessionId].object,
                                         startTime |-> now]
                        /\ UNCHANGED <<activeStreams, voiceResult>>
                   ELSE /\ activeStreams' = StreamsUpdate(activeStreams,
                                               activeStreams[sessionId].object, TRUE, 0)
                        /\ voiceResult' = [op |-> "process", sessionId |-> sessionId,
                                           value |-> "failed"]
                        /\ UNCHANGED voiceCall
    /\ UNCHANGED <<chat, sessionsMade>>

\* the stage that follows each await of processVoiceMessage
NextVoiceStage(pc) ==
    CASE pc = "stt" -> "agent"
      [] pc = "agent" -> "tts"
      [] pc = "tts" -> "idle"

\* an awaited stage of processVoiceMessage (transcription, agent response,
\* synthesis) resolves or rejects; after the last one the metrics of the
\* session object are updated, after a rejection its error count
ProcessVoiceStep(resolves) ==
    /\ voiceCall.pc \in {"stt", "agent", "tts"}
    /\ LET totalLatency == now - voiceCall.startTime
       IN  IF ~resolves
             THEN /\ activeStreams' = StreamsUpdate(activeStreams, voiceCall.object, TRUE, 0)
                  /\ voiceCall' = IdleVoiceCall
                  /\ voiceResult' = [op |-> "process", sessionId |-> voiceCall.sessionId,
                                     value |-> "failed"]
           ELSE IF NextVoiceStage(voiceCall.pc) = "idle"
             THEN /\ activeStreams' = StreamsUpdate(activeStreams, voiceCall.object,
                                                          FALSE, totalLatency)
                  /\ voiceCall' = IdleVoiceCall
                  /\ voiceResult' = [op |-> "process", sessionId |-> voiceCall.sessionId,
                                     value |-> "response"]
           ELSE /\ voiceCall' = [voiceCall EXCEPT !.pc = NextVoiceStage(voiceCall.pc)]
                /\ UNCHANGED <<activeStreams, voiceResult>>
    /\ UNCHANGED <<chat, sessionsMade>>

----------------------------------------------------------------------------
(* The broker on its own: outside callers, fallback calls and health probes *)

\* new ToolBroker(): the constructor runs initializeProviders() up to its
\* first await (pinecone.init, when the pinecone keys are set)
BrokerInit ==
    /\ env \in SUBSET {"OPENAI_API_KEY", "PINECONE_API_KEY"}
    /\ providers = IF "OPENAI_API_KEY" \in env THEN {"openai"} ELSE {}
    /\ initPc = IF "PINECONE_API_KEY" \in env THEN "pinecone_init" ELSE "done"
    /\ fallbacks = IF "PINECONE_API_KEY" \in env
                     THEN [s \in {} |-> <<>>] ELSE ConfiguredFallbacks
    /\ healthStatus = [p \in ProviderNames |-> NoHealth]
    /\ retryAttempts = [k \in RetryKeys |-> 0]
    /\ probe = [r \in Rounds |-> IdleProbe]
    /\ call = [c \in Calls |-> IdleCall]
    /\ fb = [f \in Fallbacks |-> IdleFb]

\* the router and the drawn inputs are left out of the broker's own runs
Init ==
    /\ BrokerInit
    /\ RouterInit
    /\ dailyBudget = DefaultDailyBudget
    /\ FnIdle

nonBrokerVars == <<clockVars, costVars, routerVars, memVars, fnVars, serverVars>>

Next ==
    \/ (\E ok \in BOOLEAN : PineconeInitReturn(ok)) /\ UNCHANGED nonBrokerVars
    \/ (\E c \in Calls, site \in CallSites, opt \in RetryOptions :
          Invoke(c, site[1], site[2], opt)) /\ UNCHANGED nonBrokerVars
    \/ (\E c \in Calls : CallSucceeds(c)) /\ UNCHANGED nonBrokerVars
    \/ (\E c \in Calls : CallFails(c)) /\ UNCHANGED nonBrokerVars
    \/ (\E c \in Calls : BackoffElapsed(c)) /\ UNCHANGED nonBrokerVars
    \/ (\E c \in Calls : Return(c)) /\ UNCHANGED nonBrokerVars
    \/ (\E r \in Rounds : ProbeStart(r)) /\ UNCHANGED nonBrokerVars
    \/ (\E r \in Rounds, o \in {"healthy", "unhealthy", "throws"} : ProbeReturn(r, o))
          /\ UNCHANGED nonBrokerVars

Spec == Init /\ [][Next]_vars

\* the broker serving callWithFallback callers, with the health probes running
NextFallback ==
    \/ (\E ok \in BOOLEAN : PineconeInitReturn(ok)) /\ UNCHANGED nonBrokerVars
    \/ (\E f \in Fallbacks, site \in FallbackSites, opt \in RetryOptions :
          FbStart(f, site[1], site[2], opt)) /\ UNCHANGED nonBrokerVars
    \/ (\E f \in Fallbacks : FbStep(f)) /\ UNCHANGED nonBrokerVars
    \/ (\E f \in Fallbacks : FbReturn(f)) /\ UNCHANGED nonBrokerVars
    \/ (\E c \in Calls : CallSucceeds(c)) /\ UNCHANGED nonBrokerVars
    \/ (\E c \in Calls : CallFails(c)) /\ UNCHANGED nonBrokerVars
    \/ (\E c \in Calls : BackoffElapsed(c)) /\ UNCHANGED nonBrokerVars
    \/ (\E r \in Rounds : ProbeStart(r)) /\ UNCHANGED nonBrokerVars
    \/ (\E r \in Rounds, o \in {"healthy", "unhealthy", "throws"} : ProbeReturn(r, o))
          /\ UNCHANGED nonBrokerVars

SpecFallback == Init /\ [][NextFallback]_vars

----------------------------------------------------------------------------
(* selectQoSTier applied to every input *)

InitQoS ==
    /\ BrokerInit
    /\ env = {}
    /\ RouterInit
    /\ dailyBudget = DefaultDailyBudget
    /\ fnIn \in QoSInputs
    /\ fnOut = [fn |-> "none"]

NextQoS ==
    ApplySelectQoSTier
        /\ UNCHANGED <<brokerVars, clockVars, costVars, routerVars, memVars, serverVars>>

SpecQoS == InitQoS /\ [][NextQoS]_vars

----------------------------------------------------------------------------
(* selectTargetAgent applied to every input *)

InitAgent ==
    /\ BrokerInit
    /\ env = {}
    /\ RouterInit
    /\ dailyBudget = DefaultDailyBudget
    /\ fnIn \in AgentInputs
    /\ fnOut = [fn |-> "none"]

NextAgent ==
    ApplySelectTargetAgent
        /\ UNCHANGED <<brokerVars, clockVars, costVars, routerVars, memVars, serverVars>>

SpecAgent == InitAgent /\ [][NextAgent]_vars

----------------------------------------------------------------------------
(* The cost sentinel on its own: cost checks and daily resets *)

InitCost ==
    /\ BrokerInit
    /\ env = {}
    /\ RouterInit
    /\ dailyBudget \in Budgets
    /\ FnIdle

NextCost ==
    \/ (\E t \in TierNames, m \in Messages : CheckCost(t, m))
          /\ UNCHANGED <<brokerVars, clockVars, routerVars, memVars, fnVars, serverVars>>
    \/ ResetDailyCosts
          /\ UNCHANGED <<brokerVars, clockVars, routerVars, memVars, fnVars, serverVars>>

SpecCost == InitCost /\ [][NextCost]_vars

----------------------------------------------------------------------------
(* The router: concurrent route() calls over the broker, with the daily   *)
(* reset, within one instant of the clock                                 *)

\* the messages the router runs are made with
RouterMessages == {"ok?"}

InitRouter ==
    /\ BrokerInit
    /\ initPc = "done"
    /\ RouterInit
    /\ dailyBudget \in RouterBudgets
    /\ FnIdle

NextRouter ==
    \/ \E r \in Routes, m \in RouterMessages, ctx \in Contexts : RouteStart(r, m, ctx)
    \/ \E r \in Routes, parsed \in LlmIntents \cup {UnparsableIntent} : ClassifyReturn(r, parsed)
    \/ \E r \in Routes, parsed \in LlmAdvice \cup {UnparsableAdvice} : CouncilReturn(r, parsed)
    \/ \E r \in Routes : RouteReturn(r)
    \/ (\E c \in Calls : CallSucceeds(c)) /\ UNCHANGED nonBrokerVars
    \/ (\E c \in Calls : CallFails(c)) /\ UNCHANGED nonBrokerVars
    \/ (\E c \in Calls : BackoffElapsed(c)) /\ UNCHANGED nonBrokerVars
    \/ ResetDailyCosts
          /\ UNCHANGED <<brokerVars, clockVars, routerVars, memVars, fnVars, serverVars>>

SpecRouter == InitRouter /\ [][NextRouter]_vars

----------------------------------------------------------------------------
(* The router called with and without a context object, within one ledger *)
(* day and one instant of the clock                                       *)

FailureContexts == {PlainContext, NullContext}

NextFailures ==
    \/ \E r \in Routes, m \in RouterMessages, ctx \in FailureContexts : RouteStart(r, m, ctx)
    \/ \E r \in Routes, parsed \in LlmIntents \cup {UnparsableIntent} : ClassifyReturn(r, parsed)
    \/ \E r \in Routes, parsed \in LlmAdvice \cup {UnparsableAdvice} : CouncilReturn(r, parsed)
    \/ \E r \in Routes : RouteReturn(r)
    \/ (\E c \in Calls : CallSucceeds(c)) /\ UNCHANGED nonBrokerVars
    \/ (\E c \in Calls : CallFails(c)) /\ UNCHANGED nonBrokerVars
    \/ (\E c \in Calls : BackoffElapsed(c)) /\ UNCHANGED nonBrokerVars

SpecFailures == InitRouter /\ [][NextFailures]_vars

----------------------------------------------------------------------------
(* The council rule: one request at a time under the default budget, over *)
(* the classifications on either side of each clause of the rule          *)

CouncilIntents ==
    {[category |-> "general", confidenceTenths |-> 9, urgency |-> "high",
      complexity |-> "complex", requiresTools |-> FALSE, estimatedTokens |-> 500],
     [category |-> "general", confidenceTenths |-> 9, urgency |-> "high",
      complexity |-> "simple", requiresTools |-> FALSE, estimatedTokens |-> 200],
     [category |-> "security", confidenceTenths |-> 7, urgency |-> "low",
      complexity |-> "simple", requiresTools |-> FALSE, estimatedTokens |-> 100],
     [category |-> "finance", confidenceTenths |-> 8, urgency |-> "low",
      complexity |-> "simple", requiresTools |-> TRUE,
      estimatedTokens |-> CouncilTokenThreshold],
     [category |-> "finance", confidenceTenths |-> 8, urgency |-> "low",
      complexity |-> "simple", requiresTools |-> TRUE,
      estimatedTokens |-> CouncilTokenThreshold + 1],
     [category |-> "research", confidenceTenths |-> 8, urgency |-> "medium",
      complexity |-> "complex", requiresTools |-> TRUE, estimatedTokens |-> 2000]}

\* contexts with and without a preferred agent
CouncilContexts ==
    {PlainContext, [PlainContext EXCEPT !.preferredAgent = "mint"],
     [PlainContext EXCEPT !.preferredAgent = "echo"]}

\* the broker built with the openai key alone, the router under the default budget
InitCouncil ==
    /\ BrokerInit
    /\ env = {"OPENAI_API_KEY"}
    /\ RouterInit
    /\ dailyBudget = DefaultDailyBudget
    /\ FnIdle

NextCouncil ==
    \/ \E m \in RouterMessages, ctx \in CouncilContexts : RouteStart(1, m, ctx)
    \/ \E parsed \in CouncilIntents \cup {UnparsableIntent} : ClassifyReturn(1, parsed)
    \/ \E parsed \in LlmAdvice \cup {UnparsableAdvice} : CouncilReturn(1, parsed)
    \/ RouteReturn(1)
    \/ (\E c \in Calls : CallSucceeds(c)) /\ UNCHANGED nonBrokerVars
    \/ (\E c \in Calls : CallFails(c)) /\ UNCHANGED nonBrokerVars
    \/ (\E c \in Calls : BackoffElapsed(c)) /\ UNCHANGED nonBrokerVars

SpecCouncil == InitCouncil /\ [][NextCouncil]_vars

----------------------------------------------------------------------------
(* The council verdict: one request at a time, the clock running while    *)
(* the council call is under way                                          *)

\* the well-formed replies of the council
VerdictAdvice == LlmAdvice \cup {[recommendation |-> "caution"]}

\* the steps the clock is advanced by between router callbacks
VerdictTicks == {1, CouncilBudgetMs}

NextVerdict ==
    \/ \E m \in RouterMessages : RouteStart(1, m, PlainContext)
    \/ \E parsed \in CouncilIntents \cup {UnparsableIntent} : ClassifyReturn(1, parsed)
    \/ \E parsed \in VerdictAdvice \cup {UnparsableAdvice} : CouncilReturn(1, parsed)
    \/ RouteReturn(1)
    \/ (\E c \in Calls : CallSucceeds(c)) /\ UNCHANGED nonBrokerVars
    \/ (\E c \in Calls : CallFails(c)) /\ UNCHANGED nonBrokerVars
    \/ (\E c \in Calls : BackoffElapsed(c)) /\ UNCHANGED nonBrokerVars
    \/ (\E d \in VerdictTicks : Tick(d))
          /\ UNCHANGED <<brokerVars, costVars, routerVars, memVars, fnVars, serverVars>>

SpecVerdict == InitCouncil /\ [][NextVerdict]_vars

----------------------------------------------------------------------------
(* The context flags: one request at a time, from callers with and        *)
(* without a conversation                                                 *)

FlagContexts ==
    {PlainContext,
     [PlainContext EXCEPT !.conversationId = TRUE, !.previousMessage = TRUE]}

NextFlags ==
    \/ \E m \in RouterMessages, ctx \in FlagContexts : RouteStart(1, m, ctx)
    \/ \E parsed \in LlmIntents \cup {UnparsableIntent} : ClassifyReturn(1, parsed)
    \/ \E parsed \in LlmAdvice \cup {UnparsableAdvice} : CouncilReturn(1, parsed)
    \/ RouteReturn(1)
    \/ (\E c \in Calls : CallSucceeds(c)) /\ UNCHANGED nonBrokerVars
    \/ (\E c \in Calls : CallFails(c)) /\ UNCHANGED nonBrokerVars
    \/ (\E c \in Calls : BackoffElapsed(c)) /\ UNCHANGED nonBrokerVars

SpecFlags == InitCouncil /\ [][NextFlags]_vars

----------------------------------------------------------------------------
(* Progress of a request: one route() call at a time next to the direct   *)
(* callers of callProvider('openai', 'chat'), every provider call and     *)
(* every timer eventually coming back                                     *)

NextProgress ==
    \/ \E m \in RouterMessages : RouteStart(1, m, PlainContext)
    \/ \E parsed \in LlmIntents \cup {UnparsableIntent} : ClassifyReturn(1, parsed)
    \/ \E parsed \in LlmAdvice \cup {UnparsableAdvice} : CouncilReturn(1, parsed)
    \/ RouteReturn(1)
    \/ (\E c \in Calls, site \in CallSites : Invoke(c, site[1], site[2], 0))
          /\ UNCHANGED nonBrokerVars
    \/ (\E c \in Calls : Return(c)) /\ UNCHANGED nonBrokerVars
    \/ (\E c \in Calls : CallSucceeds(c)) /\ UNCHANGED nonBrokerVars
    \/ (\E c \in Calls : CallFails(c)) /\ UNCHANGED nonBrokerVars
    \/ (\E c \in Calls : BackoffElapsedAgain(c)) /\ UNCHANGED nonBrokerVars

\* a provider call settles, a backoff timer fires, and the continuation of a
\* settled await runs
FairProgress ==
    /\ \A c \in Calls :
          /\ WF_vars((CallSucceeds(c) \/ CallFails(c)) /\ UNCHANGED nonBrokerVars)
          /\ WF_vars(BackoffElapsedAgain(c) /\ UNCHANGED nonBrokerVars)
    /\ WF_vars(\E parsed \in LlmIntents \cup {UnparsableIntent} : ClassifyReturn(1, parsed))
    /\ WF_vars(\E parsed \in LlmAdvice \cup {UnparsableAdvice} : CouncilReturn(1, parsed))

SpecProgress == InitCouncil /\ [][NextProgress]_vars /\ FairProgress

----------------------------------------------------------------------------
(* The intent cache over time: concurrent route() calls of plain chat     *)
(* requests under the default budget, with the clock running              *)

\* the steps the clock is advanced by between router callbacks
CacheTicks == {IntentCacheTtl}

InitCache ==
    /\ BrokerInit
    /\ env = {"OPENAI_API_KEY"}
    /\ RouterInit
    /\ dailyBudget = DefaultDailyBudget
    /\ FnIdle

NextCache ==
    \/ \E r \in Routes, m \in RouterMessages : RouteStart(r, m, PlainContext)
    \/ \E r \in Routes, parsed \in LlmIntents \cup {UnparsableIntent} : ClassifyReturn(r, parsed)
    \/ \E r \in Routes, parsed \in LlmAdvice \cup {UnparsableAdvice} : CouncilReturn(r, parsed)
    \/ \E r \in Routes : RouteReturn(r)
    \/ (\E c \in Calls : CallSucceeds(c)) /\ UNCHANGED nonBrokerVars
    \/ (\E c \in Calls : CallFails(c)) /\ UNCHANGED nonBrokerVars
    \/ (\E c \in Calls : BackoffElapsed(c)) /\ UNCHANGED nonBrokerVars
    \/ (\E d \in CacheTicks : Tick(d))
          /\ UNCHANGED <<brokerVars, costVars, routerVars, memVars, fnVars, serverVars>>

SpecCache == InitCache /\ [][NextCache]_vars

----------------------------------------------------------------------------
(* The memory tiers: stores, pins, the hourly sweep and context assembly *)

\* the steps the clock is advanced by between memory callbacks
MemoryTicks == {1, ShortTermDecay}

\* the broker plays no part: it is the one built with no API key set
InitMemory ==
    /\ Init
    /\ env = {}

NextMemory ==
    \/ (\E k \in Keys : StoreShortTermMemory(k))
          /\ UNCHANGED <<brokerVars, clockVars, costVars, routerVars, fnVars, serverVars>>
    \/ (\E k \in Keys : PinToMemory(k))
          /\ UNCHANGED <<brokerVars, clockVars, costVars, routerVars, fnVars, serverVars>>
    \/ MemoryCleanup
          /\ UNCHANGED <<brokerVars, clockVars, costVars, routerVars, fnVars, serverVars>>
    \/ (\E cat \in {"general"} : AssembleMemory(cat))
          /\ UNCHANGED <<brokerVars, clockVars, costVars, routerVars, fnVars, serverVars>>
    \/ (\E d \in MemoryTicks : Tick(d))
          /\ UNCHANGED <<brokerVars, costVars, routerVars, memVars, fnVars, serverVars>>

SpecMemory == InitMemory /\ [][NextMemory]_vars

----------------------------------------------------------------------------
(* The short-term window: a conversation longer than the window, whose    *)
(* turns are stored under their numbers and may be stored again           *)

\* the turn numbers items are stored under: one more than the window holds
TurnKeys == 1..(ShortTermWindow + 1)

\* the turn that is stored again after it was stored for the first time
RestoredTurns == {1}

\* turns are stored in their order for the first time
StorableTurns == {k \in TurnKeys : k = Len(shortTerm) + 1 \/ k \in RestoredTurns}

NextWindow ==
    \/ (\E k \in StorableTurns : StoreShortTermMemory(k))
          /\ UNCHANGED <<brokerVars, clockVars, costVars, routerVars, fnVars, serverVars>>
    \/ (\E cat \in {"general"} : AssembleMemory(cat))
          /\ UNCHANGED <<brokerVars, clockVars, costVars, routerVars, fnVars, serverVars>>
    \/ (\E d \in {1} : Tick(d))
          /\ UNCHANGED <<brokerVars, costVars, routerVars, memVars, fnVars, serverVars>>

SpecWindow == InitMemory /\ [][NextWindow]_vars

----------------------------------------------------------------------------
(* The decay sweeps: both tiers and the pin set filled by conversation    *)
(* handling, the hourly sweep of the server, the clock stepping over the  *)
(* horizons; no context is assembled in between                           *)

\* the turn numbers and the categories items are stored under
SweptTurns == {1, 2}
SweptCategories == {"general"}

\* the steps the clock is advanced by between memory callbacks
SweepTicks == {1, ShortTermDecay, MidTermDecay}

NextSweep ==
    \/ (\E k \in SweptTurns : k <= Len(shortTerm) + 1 /\ StoreShortTermMemory(k))
          /\ UNCHANGED <<brokerVars, clockVars, costVars, routerVars, fnVars, serverVars>>
    \/ (\E cat \in SweptCategories : StoreMidTermMemory(cat))
          /\ UNCHANGED <<brokerVars, clockVars, costVars, routerVars, fnVars, serverVars>>
    \/ (\E k \in SweptTurns : PinToMemory(k))
          /\ UNCHANGED <<brokerVars, clockVars, costVars, routerVars, fnVars, serverVars>>
    \/ MemoryCleanup
          /\ UNCHANGED <<brokerVars, clockVars, costVars, routerVars, fnVars, serverVars>>
    \/ (\E d \in SweepTicks : Tick(d))
          /\ UNCHANGED <<brokerVars, costVars, routerVars, memVars, fnVars, serverVars>>

SpecSweep == InitMemory /\ [][NextSweep]_vars

----------------------------------------------------------------------------
(* Context assembly over tiers that hold expired items: stores into both  *)
(* tiers, a pin, the clock stepping over the horizons, no sweep           *)

NextAssemble ==
    \/ (\E k \in {1} : StoreShortTermMemory(k))
          /\ UNCHANGED <<brokerVars, clockVars, costVars, routerVars, fnVars, serverVars>>
    \/ (\E cat \in SweptCategories : StoreMidTermMemory(cat))
          /\ UNCHANGED <<brokerVars, clockVars, costVars, routerVars, fnVars, serverVars>>
    \/ (\E k \in {1} : PinToMemory(k))
          /\ UNCHANGED <<brokerVars, clockVars, costVars, routerVars, fnVars, serverVars>>
    \/ (\E cat \in SweptCategories : AssembleMemory(cat))
          /\ UNCHANGED <<brokerVars, clockVars, costVars, routerVars, fnVars, serverVars>>
    \/ (\E d \in SweepTicks : Tick(d))
          /\ UNCHANGED <<brokerVars, costVars, routerVars, memVars, fnVars, serverVars>>

SpecAssemble == InitMemory /\ [][NextAssemble]_vars

----------------------------------------------------------------------------
(* The chat handler: one socket sending chat messages, next to another    *)
(* caller of callProvider('openai', 'chat') (the handler of another       *)
(* socket in generateAgentResponse), every provider call and every timer  *)
(* eventually coming back                                                 *)

\* an invocation from outside the handler, one at a time
OtherInvoke(c, site) ==
    /\ \A d \in Calls : call[d].owner # "direct"
    /\ Invoke(c, site[1], site[2], 0)

NextChat ==
    \/ \E m \in RouterMessages, agentId \in ChatAgentIds : ChatMessage(m, agentId)
    \/ \E parsed \in LlmIntents \cup {UnparsableIntent} : ClassifyReturn(1, parsed)
    \/ \E parsed \in LlmAdvice \cup {UnparsableAdvice} : CouncilReturn(1, parsed)
    \/ ChatRouted
    \/ ChatDelayElapsed
    \/ ChatAgentReturn
    \/ (\E c \in Calls, site \in CallSites : OtherInvoke(c, site))
          /\ UNCHANGED nonBrokerVars
    \/ (\E c \in Calls : Return(c)) /\ UNCHANGED nonBrokerVars
    \/ (\E c \in Calls : CallSucceeds(c)) /\ UNCHANGED nonBrokerVars
    \/ (\E c \in Calls : CallFails(c)) /\ UNCHANGED nonBrokerVars
    \/ (\E c \in Calls : BackoffElapsedAgain(c)) /\ UNCHANGED nonBrokerVars

\* a provider call settles, a timer fires, and the continuation of a
\* settled await runs
FairChat ==
    /\ FairProgress
    /\ WF_vars(ChatRouted)
    /\ WF_vars(ChatDelayElapsed)
    /\ WF_vars(ChatAgentReturn)

SpecChat == InitRouter /\ [][NextChat]_vars /\ FairChat

----------------------------------------------------------------------------
(* The voice sessions: clients starting and ending sessions and sending   *)
(* voice messages, also for sessions that are not (or no longer) there    *)

NextVoice ==
    \/ (\E so \in Sockets : StartVoiceSession(so))
          /\ UNCHANGED <<brokerVars, clockVars, costVars, routerVars, memVars, fnVars>>
    \/ (\E id \in SessionIds : EndVoiceSession(id))
          /\ UNCHANGED <<brokerVars, clockVars, costVars, routerVars, memVars, fnVars>>
    \/ (\E id \in SessionIds, written \in BOOLEAN : ProcessVoiceStart(id, written))
          /\ UNCHANGED <<brokerVars, clockVars, costVars, routerVars, memVars, fnVars>>
    \/ (\E resolves \in BOOLEAN : ProcessVoiceStep(resolves))
          /\ UNCHANGED <<brokerVars, clockVars, costVars, routerVars, memVars, fnVars>>
    \/ (\E d \in {1} : Tick(d))
          /\ UNCHANGED <<brokerVars, costVars, routerVars, memVars, fnVars, serverVars>>

SpecVoice == InitMemory /\ [][NextVoice]_vars

----------------------------------------------------------------------------
(* Claims about the broker *)

\* a step in which invocation c runs the synchronous prefix of callProvider
\* (a new invocation, or the recursive call after a backoff)
EntersCall(c) ==
    /\ call[c].pc \in {"idle", "backoff"}
    /\ call'[c].pc \notin {"idle", "backoff"}

\* C1: whenever callProvider is entered for a provider P whose recorded
\* consecutiveFailures exceeds the ceiling (3), the invocation fails with the
\* provider-unhealthy error, makes no call to the provider and leaves every
\* retry counter as it was; when consecutiveFailures is at or below the
\* ceiling, the invocation is not rejected as unhealthy.
C1_UnhealthyGate ==
    [][\A c \in Calls :
         EntersCall(c) =>
           LET p == call'[c].provider
               open == healthStatus[p].consecutiveFailures > FailureCeiling
           IN  /\ open <=> (call'[c].pc = "done" /\ call'[c].res = Err("unhealthy", p))
               /\ open => /\ call'[c].made = call[c].made
                          /\ retryAttempts' = retryAttempts]_vars

\* an invocation was rejected as unhealthy while the circuit is open
C1_Witness ==
    \E c \in Calls :
        /\ call[c].pc = "done"
        /\ call[c].res.msg = "unhealthy"
        /\ healthStatus[call[c].provider].consecutiveFailures > FailureCeiling

\* C2: the number of provider calls made on behalf of one callProvider
\* invocation never exceeds its maxRetries, whatever else runs on the pair.
C2_AttemptsWithinMaxRetries ==
    \A c \in Calls : call[c].made <= MaxRetriesOf(call[c].opt)

\* the chains a callWithFallback for `service` can have looked up: the
\* configured one, or [service] when none is configured (yet)
ConfiguredChains(service) ==
    {<<service>>} \cup
    {ConfiguredFallbacks[s] : s \in DOMAIN ConfiguredFallbacks \cap {service}}

\* C3: callWithFallback tries the providers of the service's chain strictly
\* in the configured order, whatever their health: the providers tried so far
\* are a prefix of the chain, each one before the last tried has failed, the
\* result returned is that of the first provider that succeeded, and nothing
\* after it was called.
C3_FallbackOrder ==
    \A f \in Fallbacks :
        fb[f].pc # "idle" =>
          LET ch == fb[f].chain
              n == Len(fb[f].tried)
              settled == Len(fb[f].caught)
          IN  /\ ch \in ConfiguredChains(fb[f].service)
              /\ n \in 1..Len(ch)
              /\ fb[f].tried = SubSeq(ch, 1, n)
              /\ settled \in {n - 1, n}
              /\ \A i \in 1..settled :
                    ~fb[f].caught[i].ok /\ fb[f].caught[i].provider = ch[i]
              /\ fb[f].pc = "run" =>
                    /\ settled = n - 1
                    /\ call[fb[f].slot].owner = f
                    /\ call[fb[f].slot].provider = ch[n]
              /\ (fb[f].pc = "done" /\ fb[f].res.ok) =>
                    /\ settled = n - 1
                    /\ fb[f].res = Ok(ch[n])
              /\ (fb[f].pc = "done" /\ ~fb[f].res.ok) =>
                    /\ settled = n
                    /\ n = Len(ch)

\* a chain of two whose first provider, with failures on its health record,
\* was tried first and succeeded: the second one was not called
C3_Witness ==
    \E f \in Fallbacks :
        /\ fb[f].pc = "done"
        /\ fb[f].res.ok
        /\ Len(fb[f].chain) = 2
        /\ fb[f].tried = <<fb[f].chain[1]>>
        /\ healthStatus[fb[f].chain[1]].consecutiveFailures > 0

\* C4: when every provider of the chain has failed, the error thrown by
\* callWithFallback carries the error of each provider of the chain.
C4_AllFailedCarriesErrors ==
    \A f \in Fallbacks :
        (fb[f].pc = "done" /\ fb[f].res.msg = "all_providers_failed") =>
            /\ Len(fb[f].caught) = Len(fb[f].chain)
            /\ fb[f].errors = fb[f].caught

----------------------------------------------------------------------------
(* Claims about the cost sentinel *)

\* every check of the log was made with the same estimate
ConstantEstimate(log) ==
    \A i, j \in 1..Len(log) : log[i].estimatedCost = log[j].estimatedCost

\* of the checks made with a constant estimate e since the ledger was zero,
\* exactly the first floor(B / e) were admitted
AdmitsFloor ==
    (costLog # <<>> /\ ConstantEstimate(costLog)) =>
        \A i \in 1..Len(costLog) :
            costLog[i].allowed <=> i <= dailyBudget \div costLog[1].estimatedCost

\* C5 (as claimed): from a zeroed ledger, checks with a constant estimate
\* e > 0 admit exactly floor(B / e) requests and reject the next one; after
\* reset() the next check is admitted again.
C5_AsClaimed ==
    /\ AdmitsFloor
    /\ (resets /\ costLog # <<>> /\ ConstantEstimate(costLog)) => costLog[1].allowed

\* C5 (amended): from a zeroed ledger, checks with a constant estimate e > 0
\* admit exactly floor(B / e) requests and reject every later one; after
\* reset() the next check is admitted again exactly when e <= B.
C5_AdmitsFloorOfBudget ==
    /\ AdmitsFloor
    /\ (resets /\ costLog # <<>> /\ ConstantEstimate(costLog)) =>
          (costLog[1].allowed <=> costLog[1].estimatedCost <= dailyBudget)

\* budget 10000 and estimate 3000, on a day that began with reset(): three
\* checks admitted, the fourth rejected
C5_Witness ==
    /\ resets
    /\ dailyBudget = 10000
    /\ Len(costLog) = 4
    /\ \A i \in 1..4 : costLog[i].estimatedCost = 3000
    /\ \A i \in 1..3 : costLog[i].allowed
    /\ ~costLog[4].allowed

\* C6: in every reachable state, under any interleaving of route() calls and
\* daily resets, the amount spent today is non-negative and does not exceed
\* the daily budget.
C6_SpendWithinBudget ==
    /\ costTracker.daily >= 0
    /\ costTracker.daily <= dailyBudget

\* a day after a reset on which the whole budget is spent, one request was
\* rejected for it and another one is still under way
C6_Witness ==
    /\ resets
    /\ costTracker.daily = dailyBudget
    /\ \E r, q \in Routes :
          /\ route[r].pc = "done" /\ route[r].decision.error
          /\ route[q].pc \in {"classify", "council"}

----------------------------------------------------------------------------
(* Claims about the router *)

\* C7: two classifications of the same message that start less than the
\* cache TTL apart invoke the classification capability (the broker call of
\* classifyIntent) at most once in total, whatever the outcome of the first
\* and however the two interleave.
C7_ClassifiedAtMostOnce ==
    \A r, q \in Routes :
        (/\ r # q
         /\ route[r].pc # "idle" /\ route[q].pc # "idle"
         /\ route[r].msg = route[q].msg
         /\ route[r].startedAt - route[q].startedAt < IntentCacheTtl
         /\ route[q].startedAt - route[r].startedAt < IntentCacheTtl)
        => route[r].classCalls + route[q].classCalls <= 1

\* C8: an item stored in short-term memory and not pinned is absent from
\* every memory context assembled more than the short-term horizon after it
\* was stored, whether or not a store or a sweep ran in between.
C8_ExpiredItemsAbsent ==
    [][memoryContext' # memoryContext =>
         \A i \in 1..Len(memoryContext'.shortTerm) :
             LET item == memoryContext'.shortTerm[i]
             IN  (\A p \in pins : p.key # item.key) =>
                     now - item.timestamp <= ShortTermDecay]_vars

\* C9: the tier selected is realtime for a voice or call request, otherwise
\* interactive when urgency is high, otherwise batch for complex research,
\* otherwise interactive; so voice wins over urgency and batch, and batch is
\* never selected for a voice/call or a high-urgency request.
C9_QoSPrecedence ==
    fnOut.fn = "selectQoSTier" =>
        /\ fnOut.tier =
             IF fnIn.isVoice \/ fnIn.isCall THEN "realtime"
             ELSE IF fnIn.urgency = "high" THEN "interactive"
             ELSE IF fnIn.complexity = "complex" /\ fnIn.category = "research" THEN "batch"
             ELSE "interactive"
        /\ (fnIn.isVoice /\ fnIn.urgency = "high" /\ fnIn.complexity = "complex"
              /\ fnIn.category = "research") => fnOut.tier = "realtime"
        /\ fnOut.tier = "batch" =>
              ~fnIn.isVoice /\ ~fnIn.isCall /\ fnIn.urgency # "high"

\* the tier has been selected for a voice request of high urgency for complex research
C9_Witness ==
    /\ fnOut.fn = "selectQoSTier"
    /\ fnIn.isVoice /\ ~fnIn.isCall
    /\ fnIn.urgency = "high" /\ fnIn.complexity = "complex" /\ fnIn.category = "research"
    /\ fnOut.tier = "realtime"

\* a finished route() of the scenario of C10: no voice/call context, no
\* preferred specialist, classified finance / high / moderate with estimated
\* tokens above the council threshold, and admitted by the cost check
FinanceScenario(r) ==
    /\ route[r].pc = "done"
    /\ ~route[r].ctx.isVoice /\ ~route[r].ctx.isCall
    /\ route[r].ctx.preferredAgent = "none"
    /\ route[r].intent.category = "finance"
    /\ route[r].intent.urgency = "high"
    /\ route[r].intent.complexity = "moderate"
    /\ route[r].intent.estimatedTokens > CouncilTokenThreshold
    /\ ~route[r].decision.error

\* C10: route() of the finance scenario returns a decision with tier
\* interactive, target specialist mint and a council verdict that is not null.
C10_FinanceDecision ==
    \A r \in Routes :
        FinanceScenario(r) =>
            /\ route[r].decision.made
            /\ route[r].decision.tier = "interactive"
            /\ route[r].decision.targetAgent = "mint"
            /\ route[r].decision.councilAdvice.kind # "null"

\* a route() of the finance scenario has returned with the council's own verdict
C10_Witness ==
    \E r \in Routes :
        /\ FinanceScenario(r)
        /\ route[r].decision.councilAdvice.kind = "advice"

----------------------------------------------------------------------------
(* Claims about failures inside route() *)

\* the failures of the classification call: the provider call failed after
\* the retries, the broker rejected the call, or the reply did not parse
ClassificationFailures ==
    {"provider_error", "not_available", "unhealthy", "max_retries", "unparsable"}

\* C11: when the classification call errors, is rejected by the broker or
\* returns a reply that cannot be parsed, classifyIntent returns the default
\* intent (general, confidence 0.5, moderate, medium, no tools) and route()
\* goes on to the later stages: it fails for no other reason than the budget.
C11_ClassificationNeverBlocks ==
    \A r \in Routes :
        route[r].classified \in ClassificationFailures =>
            /\ route[r].intent.category = "general"
            /\ route[r].intent.confidenceTenths = 5
            /\ route[r].intent.complexity = "moderate"
            /\ route[r].intent.urgency = "medium"
            /\ route[r].intent.requiresTools = FALSE
            /\ route[r].pc \in {"council", "done"}
            /\ route[r].decision.tier \in TierNames
            /\ route[r].decision.error => route[r].decision.message = "Daily budget exceeded"

\* a request whose classification reply did not parse has been routed
C11_Witness ==
    \E r \in Routes :
        /\ route[r].classified = "unparsable"
        /\ route[r].pc = "done"
        /\ route[r].decision.made /\ ~route[r].decision.error
        /\ route[r].decision.targetAgent = "rika"

\* the failures of the council call: the provider call failed, the broker
\* rejected the call, or the reply did not parse
CouncilFailures ==
    {"provider_error", "not_available", "unhealthy", "max_retries", "unparsable"}

\* C12: whenever a triggered council review fails (provider error, rejection
\* by the broker, unparsable result), route() still returns a non-error
\* decision whose verdict has recommendation proceed and reason
\* council_unavailable.
C12_CouncilFailureProceeds ==
    \A r \in Routes :
        route[r].reviewed \in CouncilFailures =>
            /\ route[r].pc = "done"
            /\ route[r].decision.made
            /\ ~route[r].decision.error
            /\ route[r].decision.councilAdvice.recommendation = "proceed"
            /\ route[r].decision.councilAdvice.reason = "council_unavailable"

\* a finance request whose council call failed at the provider has been routed to mint
C12_Witness ==
    \E r \in Routes :
        /\ route[r].reviewed = "provider_error"
        /\ route[r].pc = "done"
        /\ route[r].decision.targetAgent = "mint"
        /\ route[r].decision.councilAdvice.recommendation = "proceed"

\* C13: route() never throws: every request that has finished holds a
\* decision; a failure of a stage (a stage that threw, or the budget
\* rejection) is returned as an error decision; and every error decision
\* carries the correlation id generated for its request and a non-empty
\* reason.
C13_FailuresAreErrorDecisions ==
    \A r \in Routes :
        /\ route[r].pc = "done" => route[r].decision.made
        /\ (route[r].pc = "done" /\ (route[r].admitted = "no" \/ route[r].ctx.isNull))
              => route[r].decision.error
        /\ route[r].decision.error =>
              /\ route[r].decision.id = route[r].id
              /\ route[r].decision.id # 0
              /\ route[r].decision.message # ""

\* one request has been rejected for the budget and another one, called
\* with a null context, has failed in tier selection
C13_Witness ==
    \E r, q \in Routes :
        /\ route[r].pc = "done" /\ route[r].admitted = "no"
        /\ route[r].decision.error /\ route[r].decision.id = RoutingId(r)
        /\ route[q].pc = "done" /\ route[q].ctx.isNull
        /\ route[q].decision.error /\ route[q].decision.id = RoutingId(q)

\* C14: in the step in which the cost check rejects a request, route()
\* finishes with an error decision: no specialist is selected (the decision
\* names the default rika and has no verdict), no provider call is started,
\* and the ledger (amount spent, request counter) is left as it was.
C14_RejectionLeavesNoTrace ==
    [][\A r \in Routes :
          (route[r].admitted # "no" /\ route'[r].admitted = "no") =>
              /\ route'[r].pc = "done"
              /\ route'[r].decision.error
              /\ route'[r].decision.targetAgent = "rika"
              /\ route'[r].decision.councilAdvice = NoAdvice
              /\ route'[r].reviewed = "none"
              /\ \A c \in Calls : call'[c].pc = "await" => call'[c] = call[c]
              /\ costTracker' = costTracker]_vars

\* a finance request that would go to mint and to the council has been
\* rejected by the cost check on a day whose budget is spent
C14_Witness ==
    \E r \in Routes :
        /\ route[r].pc = "done" /\ route[r].admitted = "no"
        /\ route[r].intent.category = "finance"
        /\ requiresCouncilCheck(route[r].intent, AgentMap(route[r].intent.category))
        /\ route[r].decision.error
        /\ costTracker.daily = dailyBudget /\ costTracker.requests = 2

\* the stages of route() in the order the claim gives
StageOrder == <<"classify", "tier", "memory", "cost", "agent", "council">>

----------------------------------------------------------------------------
(* Claims about the retry state and the health records *)

\* C16: when the attempt that uses up the retry budget of an invocation
\* fails, the invocation fails with the max-retries-exceeded error, and that
\* error carries the provider error of the failed attempt.
C16_ExhaustionIsMaxRetriesExceeded ==
    [][\A c \in Calls :
          (call[c].pc = "await" /\ call'[c].pc = "done" /\ ~call'[c].res.ok) =>
              /\ call'[c].res.msg = "max_retries"
              /\ call'[c].res.cause = "provider_error"]_vars

\* the awaited attempt of invocation c fails in this step
AttemptFails(c) ==
    /\ call[c].pc = "await"
    /\ call'[c].pc \in {"backoff", "done"}
    /\ ~call'[c].res.ok

\* the awaited attempt of invocation c succeeds in this step
AttemptSucceeds(c) ==
    /\ call[c].pc = "await"
    /\ call'[c].pc = "done"
    /\ call'[c].res.ok

\* C17: the retry counter of a (provider, operation) pair counts the failed
\* attempts on the pair since its last successful one: a successful attempt
\* sets it to zero and each failed attempt raises it by exactly one, also
\* when several invocations on the pair are in flight.
C17_RetryCounterCountsFailures ==
    [][\A c \in Calls :
          LET key == PairKey(call[c].provider, call[c].op)
          IN  /\ AttemptSucceeds(c) => retryAttempts'[key] = 0
              /\ AttemptFails(c) => retryAttempts'[key] = retryAttempts[key] + 1]_vars

\* C18: every attempt outcome of callProvider updates the health record of
\* the provider at once: after a successful attempt consecutiveFailures is 0,
\* after a failed attempt it is higher than before the attempt.
C18_AttemptsUpdateHealth ==
    [][\A c \in Calls :
          LET p == call[c].provider
          IN  /\ AttemptSucceeds(c) =>
                    /\ healthStatus'[p].known
                    /\ healthStatus'[p].consecutiveFailures = 0
              /\ AttemptFails(c) =>
                    healthStatus'[p].consecutiveFailures
                        > healthStatus[p].consecutiveFailures]_vars

\* a probe round gets the answer of its openai ping in this step
RoundReturns == \E r \in Rounds : probe[r].pc = "await" /\ probe'[r].pc = "idle"

\* C19: no failure increment to consecutiveFailures is lost: every failure a
\* probe round records raises the counter of the provider by exactly one
\* over its value at that moment, and nothing but a recorded failure or a
\* recorded success changes it, under any interleaving of overlapping probe
\* rounds and request-path calls.
C19_NoLostFailureIncrement ==
    [][/\ (RoundReturns /\ ~healthStatus'["openai"].healthy) =>
              healthStatus'["openai"].consecutiveFailures
                  = healthStatus["openai"].consecutiveFailures + 1
       /\ \A p \in ProviderNames :
              healthStatus'[p].consecutiveFailures # healthStatus[p].consecutiveFailures =>
                  \/ healthStatus'[p].healthy /\ healthStatus'[p].consecutiveFailures = 0
                  \/ /\ RoundReturns
                     /\ ~healthStatus'[p].healthy
                     /\ healthStatus'[p].consecutiveFailures
                            = healthStatus[p].consecutiveFailures + 1]_vars

\* three failures in a row have been recorded for openai, and a further
\* probe round and a request-path call on openai are in flight
C19_Witness ==
    /\ healthStatus["openai"].consecutiveFailures = 3
    /\ \E r \in Rounds : probe[r].pc = "await"
    /\ \E c \in Calls : call[c].pc = "await" /\ call[c].provider = "openai"

\* C20: a probe of provider P that fails (the liveness call throws or
\* reports not healthy) sets P's consecutiveFailures to its previous value
\* plus one and healthy to false; a probe that succeeds sets
\* consecutiveFailures to 0 and healthy to true.
C20_ProbeOutcomeRecorded ==
    [][\A r \in Rounds :
          LET before == healthStatus["openai"].consecutiveFailures
          IN  /\ (ProbeReturn(r, "throws") \/ ProbeReturn(r, "unhealthy")) =>
                    healthStatus'["openai"] =
                        [known |-> TRUE, healthy |-> FALSE, consecutiveFailures |-> before + 1]
              /\ ProbeReturn(r, "healthy") =>
                    healthStatus'["openai"] =
                        [known |-> TRUE, healthy |-> TRUE, consecutiveFailures |-> 0]
              /\ healthStatus'["pinecone"] # healthStatus["pinecone"] =>
                    healthStatus'["pinecone"] =
                        [known |-> TRUE, healthy |-> TRUE, consecutiveFailures |-> 0]]_vars

\* two failed probes of openai in a row have been recorded next to a
\* successful probe of pinecone
C20_Witness ==
    /\ healthStatus["openai"] = Health(FALSE, 2)
    /\ healthStatus["pinecone"] = Health(TRUE, 0)

----------------------------------------------------------------------------
(* Claims about the probe rounds *)

\* C21: a probe round never propagates an error: when the probe of a
\* provider fails, the failure is recorded in the health record of that
\* provider, the remaining registered providers are probed in the same
\* round, and the round ends normally, so that later rounds run.
C21_ProbeFailureContained ==
    [][\A r \in Rounds :
          (ProbeReturn(r, "throws") \/ ProbeReturn(r, "unhealthy")) =>
              /\ healthStatus'["openai"].known
              /\ ~healthStatus'["openai"].healthy
              /\ healthStatus'["openai"].consecutiveFailures
                    > healthStatus["openai"].consecutiveFailures
              /\ "pinecone" \in providers =>
                    healthStatus'["pinecone"].known /\ healthStatus'["pinecone"].healthy
              /\ probe'[r] = IdleProbe]_vars

\* a failed probe of openai and the probe of pinecone of the same round are
\* on record, and a later round is under way
C21_Witness ==
    /\ healthStatus["openai"] = Health(FALSE, 1)
    /\ healthStatus["pinecone"] = Health(TRUE, 0)
    /\ \E r \in Rounds : probe[r].pc = "await"

----------------------------------------------------------------------------
(* Further claims about the cost sentinel and the council rule *)

\* C22: a cost check with estimate e against budget B is rejected exactly
\* when spent + e > B.  An admitted check raises the amount spent by exactly
\* e and the request counter by exactly one and returns the remaining budget
\* B minus the new amount spent, which is never negative; a rejected check
\* changes neither counter and reports the current spend, the estimate and
\* the budget.
C22_CostCheckEffect ==
    [][Len(costLog') = Len(costLog) + 1 =>
          LET check == costLog'[Len(costLog')]
              e == check.estimatedCost
          IN  /\ check.allowed <=> ~(costTracker.daily + e > dailyBudget)
              /\ check.allowed =>
                    /\ costTracker'.daily = costTracker.daily + e
                    /\ costTracker'.requests = costTracker.requests + 1
                    /\ check.remainingBudget = dailyBudget - costTracker'.daily
                    /\ check.remainingBudget >= 0
              /\ ~check.allowed =>
                    /\ costTracker' = costTracker
                    /\ check.currentSpend = costTracker.daily
                    /\ check.dailyBudget = dailyBudget
                    /\ e > dailyBudget - costTracker.daily]_vars

\* budget 6000: two checks of 3000 were admitted, the second leaving nothing,
\* and a check of 225 was rejected after them
C22_Witness ==
    /\ dailyBudget = 6000
    /\ Len(costLog) = 3
    /\ costLog[2].allowed /\ costLog[2].remainingBudget = 0
    /\ ~costLog[3].allowed /\ costLog[3].estimatedCost = 225
    /\ costLog[3].currentSpend = 6000
    /\ costTracker = [daily |-> 6000, requests |-> 2]

\* the risk criteria of the claim
CouncilRequired(intent, targetAgent) ==
    \/ intent.urgency = "high" /\ intent.complexity = "complex"
    \/ targetAgent = "mint" /\ intent.estimatedTokens > 1000
    \/ targetAgent = "echo"

\* C23: route() performs a council review exactly when urgency is high and
\* complexity is complex, or the target specialist is mint and the estimated
\* tokens exceed 1000, or the target specialist is echo; in every other
\* admitted request no council call is made and the verdict of the decision
\* is null.
C23_CouncilExactlyWhenRequired ==
    \A r \in Routes :
        route[r].admitted = "yes" =>
            LET required == CouncilRequired(route[r].intent, route[r].decision.targetAgent)
                reviewing == route[r].pc = "council" \/ route[r].reviewed # "none"
            IN  /\ required <=> reviewing
                /\ (required /\ route[r].pc = "done") =>
                      route[r].decision.councilAdvice # NoAdvice
                /\ ~required =>
                      /\ route[r].pc = "done"
                      /\ route[r].decision.made
                      /\ route[r].decision.councilAdvice = NoAdvice

\* a research request for which the caller prefers mint is under council
\* review for its token estimate
C23_Witness ==
    \E r \in Routes :
        /\ route[r].pc = "council"
        /\ route[r].intent.category = "research"
        /\ route[r].decision.targetAgent = "mint"
        /\ route[r].intent.estimatedTokens > CouncilTokenThreshold

----------------------------------------------------------------------------
(* Claims about retries and unregistered providers *)

\* C24: after a failed attempt that is not the last permitted one the broker
\* waits 2^a time units, a being the attempt count of the pair read before
\* the attempt (1, 2, 4, ... from zero); no wait follows the last permitted
\* failed attempt; and the retry goes to the same provider and operation.
C24_ExponentialBackoff ==
    [][\A c \in Calls :
          /\ (EntersCall(c) /\ call'[c].pc = "await") =>
                call'[c].cur = retryAttempts[PairKey(call'[c].provider, call'[c].op)]
          /\ AttemptFails(c) =>
                IF call[c].cur + 1 < MaxRetriesOf(call[c].opt)
                  THEN /\ call'[c].pc = "backoff"
                       /\ call'[c].delay = 2^(call[c].cur) * 1000
                  ELSE /\ call'[c].pc = "done"
                       /\ call'[c].delay = 0
          /\ (call[c].pc = "backoff" /\ call'[c].pc # "backoff") =>
                /\ call'[c].provider = call[c].provider
                /\ call'[c].op = call[c].op
                /\ call'[c].opt = call[c].opt]_vars

\* an invocation waits two time units after its second failed attempt
C24_Witness ==
    \E c \in Calls :
        /\ call[c].pc = "backoff"
        /\ call[c].cur = 1 /\ call[c].made = 2
        /\ call[c].delay = 2000

\* a step in which the prefix of callProvider runs in slot c: for a new
\* invocation, for the recursive call after a backoff, or for the next entry
\* of a fallback chain
StartsEntry(c) ==
    /\ call[c].pc \in {"idle", "backoff", "done"}
    /\ call'[c] # call[c]
    /\ call'[c].pc # "idle"

\* C25: callProvider on a provider that is not registered fails at once: no
\* provider call is made and the retry counters and health records are
\* unchanged; in a fallback chain such an entry counts as a failed provider
\* and the next entry is tried.
C25_UnregisteredFailsAtOnce ==
    [][/\ \A c \in Calls :
            (StartsEntry(c) /\ call'[c].provider \notin providers) =>
                /\ call'[c].pc = "done"
                /\ call'[c].res = Err("not_available", call'[c].provider)
                /\ call'[c].made = IF call[c].pc = "backoff" THEN call[c].made ELSE 0
                /\ retryAttempts' = retryAttempts
                /\ healthStatus' = healthStatus
       /\ \A f \in Fallbacks :
            (/\ fb[f].pc = "run"
             /\ call[fb[f].slot].pc = "done"
             /\ call[fb[f].slot].res.msg = "not_available"
             /\ fb'[f] # fb[f]) =>
                IF fb[f].idx < Len(fb[f].chain)
                  THEN /\ fb'[f].pc = "run"
                       /\ fb'[f].tried = Append(fb[f].tried, fb[f].chain[fb[f].idx + 1])
                       /\ call'[fb[f].slot].provider = fb[f].chain[fb[f].idx + 1]
                  ELSE /\ fb'[f].pc = "done"
                       /\ ~fb'[f].res.ok]_vars

\* the first entry of a chain of two was not registered, and the second
\* entry was tried after it
C25_Witness ==
    \E f \in Fallbacks :
        /\ Len(fb[f].chain) = 2
        /\ Len(fb[f].caught) >= 1
        /\ fb[f].caught[1].msg = "not_available"
        /\ fb[f].tried = fb[f].chain

----------------------------------------------------------------------------
(* Claims about the returned intent *)

\* C26: for every classification the returned intent has hasContext true
\* exactly when the context of the current caller carries a conversation id
\* and isFollowUp true exactly when it carries a previous message, whether
\* the intent came from the provider, from the cache or from the fallback.
C26_FlagsFollowCurrentContext ==
    \A r \in Routes :
        route[r].classified # "none" =>
            /\ route[r].intent.hasContext = "true" <=> route[r].ctx.conversationId
            /\ route[r].intent.isFollowUp = "true" <=> route[r].ctx.previousMessage

----------------------------------------------------------------------------
(* Claims about progress and recovery *)

\* C27: every route() call eventually returns a decision or an error
\* decision, provided every provider call eventually returns or fails:
\* neither a failure of the classification or council call nor other
\* activity on the same provider keeps a request from completing.
C27_RouteCompletes ==
    \A r \in Routes :
        (route[r].pc \in {"classify", "council"}) ~> (route[r].pc = "done")

\* C28: probes are run for every registered provider in every round
\* whatever its eligibility: a round can start while the circuit of openai
\* is open, and as soon as a probe of openai succeeds the provider is no
\* longer unhealthy, so that an invocation made then is not rejected as
\* unhealthy.
C28_ProbeClosesCircuit ==
    /\ [](\A r \in Rounds :
            (probe[r].pc = "idle" /\ "openai" \in providers) =>
                ENABLED (ProbeStart(r) /\ UNCHANGED nonBrokerVars))
    /\ [][\A r \in Rounds :
            ProbeReturn(r, "healthy") =>
                /\ ~IsUnhealthy("openai")'
                /\ \A site \in CallSites :
                      site[1] = "openai" =>
                          Entered(site[1], site[2], 0, "direct", 0)'.res.msg # "unhealthy"]_vars

\* an invocation of openai was rejected as unhealthy, a probe of openai has
\* succeeded since, and another invocation of openai is at the provider
C28_Witness ==
    /\ healthStatus["openai"] = Health(TRUE, 0)
    /\ \E c \in Calls : /\ call[c].pc = "done"
                        /\ call[c].res = Err("unhealthy", "openai")
    /\ \E c \in Calls : call[c].pc = "await" /\ call[c].provider = "openai"

\* C29: a pair that has used up its retries is not locked out for ever:
\* once a probe of the provider has succeeded, the retry state of the pairs
\* of the provider is cleared and the next invocation of such a pair calls
\* the provider again.
C29_ProbeClearsRetryState ==
    [][\A r \in Rounds :
          ProbeReturn(r, "healthy") =>
              \A site \in CallSites :
                  (/\ site[1] = "openai"
                   /\ retryAttempts[PairKey(site[1], site[2])] >= MaxRetriesOf(0)) =>
                      /\ retryAttempts'[PairKey(site[1], site[2])] = 0
                      /\ Entered(site[1], site[2], 0, "direct", 0)'.pc = "await"]_vars

----------------------------------------------------------------------------
(* Claims about the short-term window *)

\* C30: the short-term part of an assembled context holds at most 10 items,
\* and they are the items with the most recent store times among all
\* short-term items (no item left out was stored later than an item taken),
\* also when a key already present has been stored again.
C30_WindowHoldsMostRecent ==
    [][memoryContext' # memoryContext =>
         LET taken == memoryContext'.shortTerm
         IN  /\ Len(taken) <= ShortTermWindow
             /\ \A i \in 1..Len(shortTerm) :
                   (\A j \in 1..Len(taken) : taken[j].key # shortTerm[i].key) =>
                       \A j \in 1..Len(taken) :
                           taken[j].timestamp >= shortTerm[i].timestamp]_vars

----------------------------------------------------------------------------
(* Claims about the decay sweeps, the cache and the council *)

\* C31: a decay sweep removes from the short-term and from the mid-term
\* tier exactly the items whose age is greater than the horizon of the
\* tier (an item whose age is at or below the horizon stays), and no
\* operation ever removes an item from the pin set.
C31_SweepRemovesExactlyExpired ==
    [][/\ MemoryCleanup =>
            /\ shortTerm' = SelectSeq(shortTerm,
                               LAMBDA e : now - e.timestamp <= ShortTermDecay)
            /\ \A c \in Categories :
                  midTerm'[c].present <=>
                      (midTerm[c].present /\ now - midTerm[c].timestamp <= MidTermDecay)
            /\ \A c \in Categories : midTerm'[c].present => midTerm'[c] = midTerm[c]
       /\ pins \subseteq pins']_vars

\* the sweep has removed the first turn (one unit over the horizon) and
\* kept the second (at the horizon), a summary younger than its horizon
\* and a pin as old as the removed turn
C31_Witness ==
    /\ now = ShortTermDecay + 1
    /\ shortTerm = <<[key |-> 2, timestamp |-> 1]>>
    /\ \E c \in SweptCategories : midTerm[c].present /\ midTerm[c].timestamp = 0
    /\ \E p \in pins : p.pinnedAt = 0

\* C32: once an Intent has been cached for a message hash, the entry is
\* neither overwritten nor modified before it expires, and every
\* classification of that message that finishes within the TTL of the entry
\* returns that same Intent, also when classifications of the same message
\* run concurrently.
C32_CacheEntryImmutable ==
    [][\A h \in Hashes :
          (intentCache[h].present /\ now - intentCache[h].timestamp < IntentCacheTtl) =>
              /\ intentCache'[h] = intentCache[h]
              /\ \A r \in Routes :
                    (/\ route[r].classified = "none"
                     /\ route'[r].classified # "none"
                     /\ hashMessage(route'[r].msg) = h) =>
                        route'[r].intent = intentCache[h].intent]_vars

\* C33: a council review makes at most one attempt against the provider:
\* a failed council call is not retried (it never waits in a backoff),
\* whatever the retry counter of the pair is when the review starts.
C33_CouncilSingleAttempt ==
    \A r \in Routes :
        route[r].pc = "council" =>
            /\ call[route[r].slot].made <= 1
            /\ call[route[r].slot].pc \in {"await", "done"}

\* the one attempt of a council call has failed and the call has ended,
\* while the retry counter of the pair is not zero
C33_Witness ==
    \E r \in Routes :
        /\ route[r].pc = "council"
        /\ call[route[r].slot].pc = "done"
        /\ ~call[route[r].slot].res.ok
        /\ call[route[r].slot].made = 1
        /\ retryAttempts[PairKey("openai", "chat")] > 0

\* C34: every council verdict attached to a decision, from the provider or
\* from the failure default, has a recommendation that is one of proceed,
\* caution and block, and a boolean withinBudget that is true exactly when
\* the elapsed time of the review is at most the council budget.
C34_VerdictWellFormed ==
    \A r \in Routes :
        (route[r].decision.made /\ route[r].decision.councilAdvice.kind # "null") =>
            LET verdict == route[r].decision.councilAdvice
            IN  /\ verdict.recommendation \in {"proceed", "caution", "block"}
                /\ verdict.withinBudget \in {"true", "false"}
                /\ verdict.withinBudget = "true" <=> verdict.councilTime <= CouncilBudgetMs

\* C35: assembling a memory context changes no state: the tiers and the
\* pin set are the same before and after the assembly, also when they hold
\* items older than their horizon.
C35_AssemblyReadsOnly ==
    [][memoryContext' # memoryContext =>
          /\ shortTerm' = shortTerm
          /\ midTerm' = midTerm
          /\ pins' = pins]_vars

\* a context was assembled after a pin was added, at a time when the
\* short-term item and the summary it holds were older than their horizons,
\* and the tiers still hold both
C35_Witness ==
    /\ memoryContext.assembled
    /\ memoryContext.shortTerm = shortTerm
    /\ memoryContext.midTerm = <<midTerm["general"]>>
    /\ memoryContext.pins = pins
    /\ \E p \in pins :
          /\ \E i \in 1..Len(shortTerm) :
                p.pinnedAt - shortTerm[i].timestamp > ShortTermDecay
          /\ midTerm["general"].present
          /\ p.pinnedAt - midTerm["general"].timestamp > MidTermDecay

----------------------------------------------------------------------------
(* Claims about the health records, the specialists and the cache *)

\* C36: in every reachable state each health record has healthy = true
\* exactly when its consecutiveFailures is 0, so that the unhealthy test of
\* the broker rejects exactly the providers whose consecutiveFailures
\* exceeds the ceiling.
C36_HealthyIffNoFailures ==
    \A p \in ProviderNames :
        /\ healthStatus[p].known =>
              (healthStatus[p].healthy <=> healthStatus[p].consecutiveFailures = 0)
        /\ IsUnhealthy(p) <=> healthStatus[p].consecutiveFailures > FailureCeiling

\* the record of openai is one failure over the ceiling and that of
\* pinecone is healthy; openai is rejected, pinecone is not
C36_Witness ==
    /\ healthStatus["openai"] = Health(FALSE, FailureCeiling + 1)
    /\ healthStatus["pinecone"] = Health(TRUE, 0)
    /\ IsUnhealthy("openai") /\ ~IsUnhealthy("pinecone")

\* C37: the target specialist of every decision is one of the nine known
\* specialists: the caller's preferred specialist whenever that names a
\* known one (whatever the category), otherwise the specialist mapped from
\* the category of the Intent, and rika when the category is missing or
\* outside the closed set.
C37_TargetIsKnownSpecialist ==
    fnOut.fn = "selectTargetAgent" =>
        /\ isAgentAvailable(fnOut.targetAgent)
        /\ isAgentAvailable(fnIn.preferredAgent) => fnOut.targetAgent = fnIn.preferredAgent
        /\ (~isAgentAvailable(fnIn.preferredAgent) /\ fnIn.category \notin Categories) =>
              fnOut.targetAgent = "rika"

\* C38: a classification that falls back to the default Intent writes
\* nothing to the intent cache: the default Intent is never held by (and so
\* never served from) the cache, and a classification of a message for
\* which the cache holds no live entry goes to the broker.
C38_FallbackNotCached ==
    /\ [](\A h \in Hashes :
            intentCache[h].present => intentCache[h].intent # getFallbackIntent)
    /\ [][\A r \in Routes :
            /\ (/\ route[r].classified = "none"
                /\ route'[r].classified \notin {"none", "parsed", "cached"}) =>
                    /\ route'[r].intent = getFallbackIntent
                    /\ intentCache' = intentCache
            /\ (/\ route[r].pc = "idle" /\ route'[r].pc # "idle"
                /\ ~CacheHit(route'[r].msg)) =>
                    /\ route'[r].pc = "classify"
                    /\ route'[r].classCalls = 1]_vars

\* a classification of a message has fallen back to the default Intent, the
\* cache holds no entry for the message, and another classification of the
\* same message is at the broker
C38_Witness ==
    \E r, q \in Routes :
        /\ r # q
        /\ route[r].pc = "done"
        /\ route[r].classified = "provider_error"
        /\ route[r].intent = getFallbackIntent
        /\ ~intentCache[hashMessage(route[r].msg)].present
        /\ route[q].msg = route[r].msg
        /\ route[q].pc = "classify"
        /\ route[q].classCalls = 1

----------------------------------------------------------------------------
(* Claims about the server and the voice engine *)

\* C39: every chat_message is answered with exactly one terminal event to
\* the sender: none before the handler is through, one when it is, and the
\* handler of every message gets through; the event is agent_response when
\* routing returned a non-error decision and the specialist request
\* completed, agent_error otherwise; on an error decision no specialist is
\* invoked, no typing indicator is broadcast, and the agent_error carries
\* the message and the id of the decision.
C39_OneTerminalEvent ==
    /\ [](/\ Len(chat.sent) = (IF chat.pc = "done" THEN 1 ELSE 0)
          /\ chat.pc = "done" =>
                IF chat.sent[1].type = "agent_response"
                  THEN /\ chat.invoked = 1
                       /\ isAgentAvailable(chat.targetAgent)
                       /\ chat.broadcast = <<"agent_typing", "agent_stopped_typing">>
                  ELSE /\ chat.sent[1].type = "agent_error"
                       /\ chat.invoked = 0 \/ ~isAgentAvailable(chat.targetAgent))
    /\ [][(chat.pc = "routing" /\ chat'.pc # "routing") =>
            /\ route[1].pc = "done"
            /\ IF route[1].decision.error
                 THEN /\ chat'.sent = <<ChatEvent("agent_error", route[1].decision.message,
                                                  RoutingId(1))>>
                      /\ chat'.invoked = 0
                      /\ chat'.broadcast = <<>>
                      /\ call' = call
                 ELSE /\ chat'.invoked = 1
                      /\ chat'.broadcast = <<"agent_typing">>]_vars
    /\ (chat.pc = "routing") ~> (chat.pc = "done")

\* C40: a voice session id is in the active-session set exactly from its
\* startVoiceSession until the first endVoiceSession for it: an id enters
\* the set by its startVoiceSession only and leaves it by an endVoiceSession
\* for it only; endVoiceSession returns true and removes the id when the id
\* is in the set, and false (changing nothing) when it is not, as after the
\* first one; processVoiceMessage on an id that is not in the set fails
\* with 'Voice session not found' and changes the metrics of no session.
C40_SessionLifetime ==
    [][/\ \A id \in DOMAIN activeStreams' \ DOMAIN activeStreams :
             voiceResult' = [op |-> "start", sessionId |-> id, value |-> "session"]
       /\ \A id \in DOMAIN activeStreams \ DOMAIN activeStreams' :
             voiceResult' = [op |-> "end", sessionId |-> id, value |-> "true"]
       /\ \A id \in SessionIds :
             /\ EndVoiceSession(id) =>
                   /\ id \notin DOMAIN activeStreams'
                   /\ voiceResult'.value = "true" <=> id \in DOMAIN activeStreams
                   /\ \A x \in DOMAIN activeStreams \ {id} :
                         x \in DOMAIN activeStreams' /\ activeStreams'[x] = activeStreams[x]
             /\ \A so \in Sockets :
                   (id = SessionId(now, so) /\ StartVoiceSession(so)) =>
                       id \in DOMAIN activeStreams'
             /\ \A written \in BOOLEAN :
                   (id \notin DOMAIN activeStreams /\ ProcessVoiceStart(id, written)) =>
                       /\ voiceResult'.value = "Voice session not found"
                       /\ activeStreams' = activeStreams
                       /\ voiceCall' = voiceCall]_vars

\* the one session started so far (a voice message for it is still being
\* processed) has been ended, and a second endVoiceSession for it has
\* returned false
C40_Witness ==
    /\ sessionsMade = 1
    /\ ticks = 0
    /\ activeStreams = NoStreams
    /\ voiceCall.pc # "idle"
    /\ voiceCall.sessionId = SessionId(0, "s1")
    /\ voiceResult = [op |-> "end", sessionId |-> SessionId(0, "s1"), value |-> "false"]

====
